---- MODULE Spec2Model ----
(***************************************************************************)
(* A model of the image retrieval and upload pipeline: the image search    *)
(* providers (bing.py, bing_service.py, duckduckgo.py, openverse.py,       *)
(* google_service.py), the batch orchestrator (main.py) and the export     *)
(* phase of the interactive orchestrator (streamlit_app.py).               *)
(*                                                                         *)
(* Each subsystem has its own variables, initial predicate, actions and    *)
(* specification (SpecProvider, SpecBatch, SpecExport); the variables of   *)
(* the other subsystems stay at their idle values.                         *)
(***************************************************************************)
EXTENDS Integers, Sequences, FiniteSets, TLC

VARIABLES
    \* --- one image_urls(query, limit) call of a provider ---
    p_prov,      \* which provider class the call is made on
    p_limit,     \* the limit argument
    p_key,       \* GoogleService.api_key is configured
    p_cx,        \* GoogleService.cx is configured
    p_newreq,    \* installed requests raises a JSONDecodeError that is a RequestException
    p_pc,        \* position of the call
    p_attempt,   \* loop variable `attempt` of the retry loop
    p_page,      \* response of the DuckDuckGo token page, while _get_vqd holds it
    p_vqd,       \* the vqd token _get_vqd returned ("" for None)
    p_resps,     \* responses of the results endpoint so far, one per request sent
    p_result,    \* what image_urls returned, or that it raised
    \* --- one run of the batch orchestrator, main.py ---
    b_overwrite, \* FORCE_OVERWRITE
    b_skipBlank, \* SKIP_IF_PRODUCT_BLANK
    b_input,     \* the workbook at EXCEL_PATH when the run starts
    b_pc,        \* position of main()
    b_df,        \* the DataFrame df
    b_df0,       \* df as it was when the row loop started
    b_row,       \* loop variable i of the row loop, from 1
    b_k,         \* position in the services loop of the row: 0 before it
    b_last,      \* what the latest iteration of the services loop did
    b_written,   \* what df.to_excel wrote to EXCEL_PATH
    \* --- the export phase of the interactive orchestrator, streamlit_app.py ---
    e_N,         \* max_images, as the sidebar holds it when export runs
    e_cols,      \* the uploaded workbook has the slot columns already
    e_host,      \* the upload host chosen in the sidebar
    e_items,     \* st.session_state.fetched_items: per row, the items kept
    e_sel,       \* st.session_state.selections: per row, the dict svc -> urls
    e_pc,        \* position of the export phase
    e_df,        \* the slot columns of df: row -> svc -> slot -> value
    e_df0,       \* the same as they were when the export loop started
    e_cache,     \* cache_bytes: the URLs that have preview bytes
    e_row,       \* position of the row loop, from 1
    e_k,         \* position in row_sel.items(): 0 before it
    e_last,      \* what the latest iteration over row_sel.items() did
    e_out,       \* the workbook offered for download
    \* --- one upload call of a backend: uploaders/imgbb.py, catboxmoe.py ---
    u_call,      \* which call: "imgbb", "catbox", "catbox_url"
    u_raw,       \* the raw argument
    u_ct,        \* the content_type argument
    u_url,       \* the URL the bytes were downloaded from
    u_name,      \* the display_name argument
    u_pil,       \* PIL_OK
    u_pc,        \* position of the call
    u_conv,      \* what became of the conversion in the normalizer
    u_sent,      \* the file part the POSTs carry
    u_r,         \* local variable r: the latest response received
    u_log,       \* how each POST attempt ended, in order
    u_result,    \* what the call returned, or that it raised
    \* --- upload_host_safe over the chosen images of one row and provider ---
    t_n,         \* len(chosen)
    t_pc,        \* position of the export thread
    t_i,         \* the image the export thread is at, from 1
    t_worker,    \* per call: its worker thread is unstarted, running, written, ended
    t_result,    \* per call: the result dict the worker and the caller share
    t_rets,      \* what the calls so far returned
    t_links,     \* out_links
    t_slots,     \* the slots of the table, once written
    \* --- one call of a name sanitizer ---
    n_fn,        \* which one: "helpers", "imgbb", "catbox"
    n_in,        \* the argument s
    n_pc,        \* position of the call
    n_out,       \* the string returned
    \* --- one call of download_for_preview ---
    v_resp,      \* the response to requests.get, or the exception it raised
    v_pc,        \* position of the call
    v_dl,        \* what download_image returned: (raw, ct)
    v_out,       \* what download_for_preview returned
    \* --- the grid of one row of the interactive app, across script runs ---
    g_fetched,   \* st.session_state.fetched
    g_items,     \* st.session_state.fetched_items[idx]
    g_ck,        \* st.session_state["sel_{idx}_{j}"], FALSE where the key is absent
    g_sel,       \* st.session_state.selections[idx], <<>> where the key is absent
    g_run        \* what the last script run was triggered by

provVars == <<p_prov, p_limit, p_key, p_cx, p_newreq, p_pc, p_attempt, p_page,
              p_vqd, p_resps, p_result>>

batchVars == <<b_overwrite, b_skipBlank, b_input, b_pc, b_df, b_df0, b_row, b_k,
               b_last, b_written>>

exportVars == <<e_N, e_host, e_cols, e_items, e_sel, e_pc, e_df, e_df0, e_cache, e_row,
                e_k, e_last, e_out>>

uploadVars == <<u_call, u_raw, u_ct, u_url, u_name, u_pil, u_pc, u_conv, u_sent,
                u_r, u_log, u_result>>

threadVars == <<t_n, t_pc, t_i, t_worker, t_result, t_rets, t_links, t_slots>>

sanitizerVars == <<n_fn, n_in, n_pc, n_out>>

previewVars == <<v_resp, v_pc, v_dl, v_out>>

gridVars == <<g_fetched, g_items, g_ck, g_sel, g_run>>

vars ==
    <<provVars, batchVars, exportVars, uploadVars, threadVars,
      sanitizerVars, previewVars, gridVars>>

nonProvVars ==
    <<batchVars, exportVars, uploadVars, threadVars, sanitizerVars,
      previewVars, gridVars>>

nonBatchVars ==
    <<provVars, exportVars, uploadVars, threadVars, sanitizerVars,
      previewVars, gridVars>>

nonExportVars ==
    <<provVars, batchVars, uploadVars, threadVars, sanitizerVars,
      previewVars, gridVars>>

nonUploadVars ==
    <<provVars, batchVars, exportVars, threadVars, sanitizerVars,
      previewVars, gridVars>>

nonThreadVars ==
    <<provVars, batchVars, exportVars, uploadVars, sanitizerVars,
      previewVars, gridVars>>

nonSanitizerVars ==
    <<provVars, batchVars, exportVars, uploadVars, threadVars,
      previewVars, gridVars>>

nonPreviewVars ==
    <<provVars, batchVars, exportVars, uploadVars, threadVars,
      sanitizerVars, gridVars>>

nonGridVars ==
    <<provVars, batchVars, exportVars, uploadVars, threadVars,
      sanitizerVars, previewVars>>

(***************************************************************************)
(* Bounds of the model.                                                    *)
(***************************************************************************)
MaxLimit == 2        \* limit is drawn from 1..MaxLimit
MaxItems == 2        \* result items in a JSON body
MaxMatches == 3      \* regex matches in a Bing page
MaxPageMatches == 2  \* vqd patterns that match a DuckDuckGo page
MaxRows == 2         \* rows of the workbook
MaxImages == 2       \* max_images is drawn from 1..MaxImages
MaxSel == 3          \* URLs in one selection list
MaxUploads == 2      \* upload_host_safe calls in one loop over chosen
MaxNameLen == 4      \* characters of a name given to a sanitizer
MaxGridItems == 3    \* fetched items of a row of the grid

(***************************************************************************)
(* Helpers on sequences.                                                   *)
(***************************************************************************)
Min(a, b) == IF a < b THEN a ELSE b

Range(s) == {s[i] : i \in DOMAIN s}

SeqsUpTo(S, n) == UNION {[1..k -> S] : k \in 0..n}

\* s[:n] of Python, n >= 0
Take(s, n) == SubSeq(s, 1, Min(n, Len(s)))

\* index of the first occurrence of x in s
FirstIndex(s, x) == CHOOSE i \in DOMAIN s : s[i] = x /\ \A j \in 1..(i-1) : s[j] # x

IsDistinct(s) == \A i, j \in DOMAIN s : i # j => s[i] # s[j]

(***************************************************************************)
(* HTTP responses as the providers see them.                               *)
(***************************************************************************)
Providers == {"bing", "bing_service", "duckduckgo", "openverse", "google"}

ErrorStatuses == {403, 404, 429, 500, 502, 503, 504}

\* a result item of a JSON body: a JSON object with the provider's main field
\* ("image", "url", "link") and "thumbnail" ("" when the field is absent,
\* null or empty), or a JSON value that is not an object
NonObject == [obj |-> FALSE, main |-> "", thumb |-> ""]

JsonItems == {NonObject} \cup
    {[obj |-> TRUE, main |-> m, thumb |-> t] : m \in {"", "a", "b"}, t \in {"", "t"}}

\* the strings BING_IMAGE_REGEX captures in a page, still HTML-escaped
BingRaw == {"x1", "x2?a&amp;b", "x2?a&b"}

BingItems == {[obj |-> TRUE, main |-> m, thumb |-> ""] : m \in BingRaw}

\* requests.get raised (timeout, connection error)
TransportError == [kind |-> "exc", status |-> 0, shape |-> "none", items |-> <<>>]

HttpError(s) == [kind |-> "http", status |-> s, shape |-> "none", items |-> <<>>]

Ok(shape, items) == [kind |-> "http", status |-> 200, shape |-> shape, items |-> items]

\* a 200 body: not JSON, JSON that is no object, an object without "results"
\* ("items"), with a "results" that is no list (null, a number), or with a list
JsonBodies ==
    {Ok(sh, <<>>) : sh \in {"not_json", "not_object", "no_results", "not_list"}}
    \cup {Ok("list", its) : its \in SeqsUpTo(JsonItems, MaxItems)}

BingBodies == {Ok("html", its) : its \in SeqsUpTo(BingItems, MaxMatches)}

Responses(prov) ==
    {TransportError} \cup {HttpError(s) : s \in ErrorStatuses}
    \cup (IF prov \in {"bing", "bing_service"} THEN BingBodies ELSE JsonBodies)

NoResult == [raised |-> FALSE, urls |-> <<>>, set |-> FALSE]
Returned(urls) == [raised |-> FALSE, urls |-> urls, set |-> TRUE]
Raised == [raised |-> TRUE, urls |-> <<>>, set |-> TRUE]

(***************************************************************************)
(* Python exceptions, by class name; "" is no exception.                   *)
(***************************************************************************)
\* isinstance(e, requests.RequestException): transport errors, the HTTPError of
\* raise_for_status, and the JSONDecodeError of requests >= 2.27
IsRequestException(exc, newreq) ==
    exc \in {"RequestException", "HTTPError"} \/ (exc = "JSONDecodeError" /\ newreq)

\* isinstance(e, ValueError)
IsValueError(exc) == exc = "JSONDecodeError"

Value(urls) == [exc |-> "", urls |-> urls]
Throw(exc) == [exc |-> exc, urls |-> <<>>]

(***************************************************************************)
(* Bing: bing.py and bing_service.py (the same class, the second decodes   *)
(* HTML entities before it deduplicates).                                  *)
(***************************************************************************)
\* html.unescape on the captured strings
Unescape(u) == IF u = "x2?a&amp;b" THEN "x2?a&b" ELSE u

RECURSIVE DedupFrom(_, _, _)
DedupFrom(urls, i, out) ==
    IF i > Len(urls) THEN out
    ELSE DedupFrom(urls, i + 1,
                   IF urls[i] \in Range(out) THEN out ELSE Append(out, urls[i]))

\* the seen/out loop: drop later occurrences, keep the order
Dedup(urls) == DedupFrom(urls, 1, <<>>)

Mains(items) == [i \in DOMAIN items |-> items[i].main]

\* re.findall(BING_IMAGE_REGEX, html)[:limit], cut before deduplication
BingMatches(resp, limit) == Take(Mains(resp.items), limit)

\* the try block of BingService.image_urls
BingTry(resp, limit, decode) ==
    IF resp.kind = "exc" THEN Throw("RequestException")
    ELSE IF resp.status >= 400 THEN Throw("HTTPError")
    ELSE LET urls == BingMatches(resp, limit)
         IN Value(Dedup(IF decode THEN [i \in DOMAIN urls |-> Unescape(urls[i])]
                                  ELSE urls))

\* every exception of the try block is caught and gives []
BingImageUrls(resp, limit, decode) ==
    LET v == BingTry(resp, limit, decode)
    IN IF v.exc = "" THEN Returned(v.urls) ELSE Returned(<<>>)

(***************************************************************************)
(* Google: google_service.py                                               *)
(***************************************************************************)
RECURSIVE GoogleLinks(_, _, _)
\* [item["link"] for item in items]: every item is read, whatever the limit
GoogleLinks(items, i, out) ==
    IF i > Len(items) THEN Value(out)
    ELSE IF ~items[i].obj THEN Throw("TypeError")
    ELSE IF items[i].main = "" THEN Throw("KeyError")
    ELSE GoogleLinks(items, i + 1, Append(out, items[i].main))

\* mutant: the list is not cut to the limit
GoogleExtractUncut(items, limit) == GoogleLinks(items, 1, <<>>)

\* [...][:limit]
GoogleExtract(items, limit) ==
    LET v == GoogleLinks(items, 1, <<>>)
    IN IF v.exc = "" THEN Value(Take(v.urls, limit)) ELSE v

\* the try block of GoogleService.image_urls
GoogleTry(resp, limit) ==
    IF resp.kind = "exc" THEN Throw("RequestException")
    ELSE IF resp.status >= 400 THEN Throw("HTTPError")
    ELSE IF resp.shape = "not_json" THEN Throw("JSONDecodeError")
    ELSE IF resp.shape = "not_object" THEN Throw("AttributeError")
    ELSE IF resp.shape = "not_list" THEN Throw("TypeError")
    ELSE IF resp.shape = "no_results" THEN Value(<<>>)
    ELSE GoogleExtract(resp.items, limit)

\* Timeout, HTTPError, RequestException, KeyError and Exception all return []
GoogleImageUrls(resp, limit) ==
    LET v == GoogleTry(resp, limit)
    IN IF v.exc = "" THEN Returned(v.urls) ELSE Returned(<<>>)

(***************************************************************************)
(* Openverse: openverse.py                                                 *)
(***************************************************************************)
OV_RETRY_STATUS_CODES == {429, 500, 502, 503, 504}
OV_MAX_RETRIES == 2

Continue == [exc |-> "continue", urls |-> <<>>]

RECURSIVE OvScan(_, _, _)
\* for item in results[:limit]: url = item.get("url") or item.get("thumbnail")
OvScan(items, i, out) ==
    IF i > Len(items) THEN Value(out)
    ELSE IF ~items[i].obj THEN Throw("AttributeError")
    ELSE LET url == IF items[i].main # "" THEN items[i].main ELSE items[i].thumb
         IN OvScan(items, i + 1, IF url # "" THEN Append(out, url) ELSE out)

OvExtract(items, limit) == OvScan(Take(items, limit), 1, <<>>)

\* the retry test made on a response before raise_for_status
OvShouldRetry(status, attempt) ==
    status \in OV_RETRY_STATUS_CODES /\ attempt < OV_MAX_RETRIES - 1

\* the try block of one iteration of the loop
OvTry(resp, attempt, limit) ==
    IF resp.kind = "exc" THEN Throw("RequestException")
    ELSE IF OvShouldRetry(resp.status, attempt) THEN Continue
    ELSE IF resp.status >= 400 THEN Throw("HTTPError")
    ELSE IF resp.shape = "not_json" THEN Throw("JSONDecodeError")
    ELSE IF resp.shape = "not_object" THEN Throw("AttributeError")
    ELSE IF resp.shape = "not_list" THEN Throw("TypeError")
    ELSE IF resp.shape = "no_results" THEN Value(<<>>)
    ELSE OvExtract(resp.items, limit)

\* mutant: the except clause catches every exception
OvIterationCatchAll(resp, attempt, limit, newreq) ==
    LET v == OvTry(resp, attempt, limit)
    IN IF v.exc = "" THEN [kind |-> "return", urls |-> v.urls]
       ELSE IF attempt < OV_MAX_RETRIES - 1
            THEN [kind |-> "continue", urls |-> <<>>]
       ELSE [kind |-> "return", urls |-> <<>>]

\* one iteration with its except clause: "return", "raise" or "continue"
OvIteration(resp, attempt, limit, newreq) ==
    LET v == OvTry(resp, attempt, limit)
    IN IF v.exc = "" THEN [kind |-> "return", urls |-> v.urls]
       ELSE IF v.exc = "continue" THEN [kind |-> "continue", urls |-> <<>>]
       ELSE IF IsRequestException(v.exc, newreq)
            THEN IF attempt < OV_MAX_RETRIES - 1
                 THEN [kind |-> "continue", urls |-> <<>>]
                 ELSE [kind |-> "return", urls |-> <<>>]
       ELSE [kind |-> "raise", urls |-> <<>>]

(***************************************************************************)
(* DuckDuckGo: duckduckgo.py                                               *)
(***************************************************************************)
DDG_RETRY_STATUS_CODES == {429, 500, 502, 503, 504, 403}
DDG_MAX_RETRIES == 2
NumPatterns == 7

Tokens == {"v1", "v2"}

NoPage == [kind |-> "none", status |-> 0, match |-> [i \in 1..NumPatterns |-> ""]]

\* a token page: for each pattern of the list, the group it captures in the
\* page ("" when the pattern does not match)
Pages ==
    {[kind |-> "http", status |-> 200, match |-> m] :
        m \in {f \in [1..NumPatterns -> Tokens \cup {""}] :
                 Cardinality({i \in 1..NumPatterns : f[i] # ""}) <= MaxPageMatches}}

PageResponses ==
    {[kind |-> "exc", status |-> 0, match |-> NoPage.match]}
    \cup {[kind |-> "http", status |-> s, match |-> NoPage.match] : s \in ErrorStatuses}
    \cup Pages

\* mutant: the last pattern that matches decides
FirstMatchLast(match) ==
    IF \A i \in 1..NumPatterns : match[i] = "" THEN ""
    ELSE match[CHOOSE i \in 1..NumPatterns :
                   match[i] # "" /\ \A j \in (i + 1)..NumPatterns : match[j] = ""]

\* the for loop over patterns: the first pattern that matches decides
FirstMatch(match) ==
    IF \A i \in 1..NumPatterns : match[i] = "" THEN ""
    ELSE match[CHOOSE i \in 1..NumPatterns :
                   match[i] # "" /\ \A j \in 1..(i - 1) : match[j] = ""]

\* _get_vqd: "" is None
GetVqd(page) ==
    IF page.kind = "exc" THEN ""
    ELSE IF page.status >= 400 THEN ""
    ELSE FirstMatch(page.match)

RECURSIVE DdgScan(_, _, _, _)
\* for item in results: append image or thumbnail; break at limit
DdgScan(items, i, out, limit) ==
    IF i > Len(items) THEN Value(out)
    ELSE IF ~items[i].obj THEN Throw("AttributeError")
    ELSE LET url == IF items[i].main # "" THEN items[i].main ELSE items[i].thumb
             out2 == IF url # "" THEN Append(out, url) ELSE out
         IN IF Len(out2) >= limit THEN Value(out2)
            ELSE DdgScan(items, i + 1, out2, limit)

DdgExtract(items, limit) == DdgScan(items, 1, <<>>, limit)

\* the try block of one iteration of the loop of _first_batch_urls
DdgTry(resp, limit) ==
    IF resp.kind = "exc" THEN Throw("RequestException")
    ELSE IF resp.status \in DDG_RETRY_STATUS_CODES THEN Continue
    ELSE IF resp.status >= 400 THEN Throw("HTTPError")
    ELSE IF resp.shape = "not_json" THEN Throw("JSONDecodeError")
    ELSE IF resp.shape = "not_object" THEN Throw("AttributeError")
    ELSE IF resp.shape = "not_list" THEN Throw("TypeError")
    ELSE IF resp.shape = "no_results" THEN Value(<<>>)
    ELSE DdgExtract(resp.items, limit)

\* mutant: a transient status ends the call instead of going round again
DdgIterationNoRetry(resp, limit, newreq) ==
    LET v == DdgTry(resp, limit)
    IN IF v.exc = "" THEN [kind |-> "return", urls |-> v.urls]
       ELSE IF v.exc = "continue" THEN [kind |-> "return", urls |-> <<>>]
       ELSE IF IsRequestException(v.exc, newreq) \/ IsValueError(v.exc)
            THEN [kind |-> "continue", urls |-> <<>>]
       ELSE [kind |-> "return", urls |-> <<>>]

\* one iteration with its except clauses; what _first_batch_urls lets through
\* is caught by image_urls, which returns []
DdgIteration(resp, limit, newreq) ==
    LET v == DdgTry(resp, limit)
    IN IF v.exc = "" THEN [kind |-> "return", urls |-> v.urls]
       ELSE IF v.exc = "continue" THEN [kind |-> "continue", urls |-> <<>>]
       ELSE IF IsRequestException(v.exc, newreq) \/ IsValueError(v.exc)
            THEN [kind |-> "continue", urls |-> <<>>]
       ELSE [kind |-> "return", urls |-> <<>>]

(***************************************************************************)
(* The table of the batch orchestrator: main.py                            *)
(***************************************************************************)
\* the services dict, in its iteration order, and service_to_column
Services == <<"bing", "openverse", "duckduckgo">>

\* a cell pandas reads as missing
NaN == "NaN"

\* str(v).strip() if pd.notna(v) else ""
StripCell(v) == IF v = NaN \/ v = " " THEN "" ELSE v

NoTable == <<>>

NoLast ==
    [row |-> 0, svc |-> "", steps |-> <<>>, skipped |-> FALSE, up |-> "", url |-> "",
     bytes |-> ""]

BatchIdle ==
    /\ b_overwrite = TRUE /\ b_skipBlank = TRUE /\ b_input = [kind |-> "none", rows |-> <<>>]
    /\ b_pc = "idle" /\ b_df = NoTable /\ b_df0 = NoTable /\ b_row = 0 /\ b_k = 0
    /\ b_last = NoLast /\ b_written = NoTable

\* a provider column the workbook does not have yet
Absent == "absent"

\* rows of a workbook that has the three provider columns
RowKinds ==
    { [product |-> "Widget", image |-> "img", bing |-> NaN, openverse |-> NaN,
       duckduckgo |-> NaN],
      [product |-> "Widget", image |-> "img", bing |-> "old", openverse |-> " ",
       duckduckgo |-> "old"],
      [product |-> NaN, image |-> "img", bing |-> "old", openverse |-> "old",
       duckduckgo |-> NaN] }

\* rows of a workbook without them
NewRowKinds ==
    { [product |-> pr, image |-> "img", bing |-> Absent, openverse |-> Absent,
       duckduckgo |-> Absent] : pr \in {"Widget", " "} }

\* what pd.read_excel finds at EXCEL_PATH
Inputs ==
    {[kind |-> "unreadable", rows |-> <<>>]}
    \cup {[kind |-> "no_product_col", rows |-> <<>>]}
    \cup {[kind |-> "ok", rows |-> rs] :
            rs \in UNION {[1..n -> RowKinds] : n \in 0..MaxRows}}
    \cup {[kind |-> "ok", rows |-> rs] :
            rs \in UNION {[1..n -> NewRowKinds] : n \in 1..MaxRows}}

\* if col not in df.columns: df[col] = ""
EnsureColumns(rows) ==
    [i \in DOMAIN rows |->
        [f \in DOMAIN rows[i] |-> IF rows[i][f] = Absent THEN "" ELSE rows[i][f]]]

\* what service.first_image_url does: raises, returns None (""), or a URL;
\* only OpenverseService lets an exception through
SvcOutcomes(key) == (IF key = "openverse" THEN {"raise"} ELSE {}) \cup {"", "src"}

\* _download_image: (None, None), empty bytes, or bytes
DlOutcomes == {"fail", "empty", "ok"}

\* _save_one_local: writes the file, or open/makedirs raise OSError
SaveOutcomes == {"ok", "raise"}

\* uploader.upload: raises, returns None (""), or the hosted URL
UpOutcomes == {"raise", "", "hosted"}

NoWrite == "(no write)"

\* mutant: the flag is read the wrong way round
ShouldSkipInverted(existing, overwrite) == existing # "" /\ overwrite

\* existing and not FORCE_OVERWRITE
ShouldSkip(existing, overwrite) == existing # "" /\ ~overwrite

\* mutant: a failed upload blanks the cell
LoopBodyBlanking(existing, overwrite, svc, dl, save, up) ==
    IF ShouldSkip(existing, overwrite)
    THEN [steps |-> <<>>, skipped |-> TRUE, write |-> NoWrite, crashed |-> FALSE,
          up |-> "",
          url |-> "", bytes |-> ""]
    ELSE IF svc \in {"raise", ""}
    THEN [steps |-> <<"query">>, skipped |-> FALSE, write |-> NoWrite,
          crashed |-> FALSE, up |-> "",
          url |-> "", bytes |-> ""]
    ELSE IF dl # "ok"
    THEN [steps |-> <<"query", "fetch">>, skipped |-> FALSE, write |-> NoWrite,
          crashed |-> FALSE, up |-> "",
          url |-> "src", bytes |-> ""]
    ELSE IF save = "raise"
    THEN [steps |-> <<"query", "fetch", "save">>, skipped |-> FALSE,
          write |-> NoWrite, crashed |-> TRUE, up |-> "",
          url |-> "src", bytes |-> "ok"]
    ELSE IF up = "raise"
    THEN [steps |-> <<"query", "fetch", "save", "upload">>, skipped |-> FALSE,
          write |-> NoWrite, crashed |-> TRUE, up |-> "",
          url |-> "src", bytes |-> "ok"]
    ELSE [steps |-> <<"query", "fetch", "save", "upload", "record">>,
          skipped |-> FALSE, write |-> up, crashed |-> FALSE, up |-> up,
          url |-> "src", bytes |-> "ok"]

\* mutant: the source URL is recorded when the upload returns no URL
LoopBodySourceFallback(existing, overwrite, svc, dl, save, up) ==
    IF ShouldSkip(existing, overwrite)
    THEN [steps |-> <<>>, skipped |-> TRUE, write |-> NoWrite, crashed |-> FALSE,
          up |-> "",
          url |-> "", bytes |-> ""]
    ELSE IF svc \in {"raise", ""}
    THEN [steps |-> <<"query">>, skipped |-> FALSE, write |-> NoWrite,
          crashed |-> FALSE, up |-> "",
          url |-> "", bytes |-> ""]
    ELSE IF dl # "ok"
    THEN [steps |-> <<"query", "fetch">>, skipped |-> FALSE, write |-> NoWrite,
          crashed |-> FALSE, up |-> "",
          url |-> "src", bytes |-> ""]
    ELSE IF save = "raise"
    THEN [steps |-> <<"query", "fetch", "save">>, skipped |-> FALSE,
          write |-> NoWrite, crashed |-> TRUE, up |-> "",
          url |-> "src", bytes |-> "ok"]
    ELSE IF up = "raise"
    THEN [steps |-> <<"query", "fetch", "save", "upload">>, skipped |-> FALSE,
          write |-> NoWrite, crashed |-> TRUE, up |-> "",
          url |-> "src", bytes |-> "ok"]
    ELSE IF up = ""
    THEN [steps |-> <<"query", "fetch", "save", "upload", "record">>,
          skipped |-> FALSE, write |-> svc, crashed |-> FALSE, up |-> "",
          url |-> "src", bytes |-> "ok"]
    ELSE [steps |-> <<"query", "fetch", "save", "upload", "record">>,
          skipped |-> FALSE, write |-> up, crashed |-> FALSE, up |-> up,
          url |-> "src", bytes |-> "ok"]

\* the body of the services loop for one (row, service): the steps it takes,
\* the value it writes into the cell, and whether an exception leaves main()
LoopBody(existing, overwrite, svc, dl, save, up) ==
    IF ShouldSkip(existing, overwrite)
    THEN [steps |-> <<>>, skipped |-> TRUE, write |-> NoWrite, crashed |-> FALSE,
          up |-> "",
          url |-> "", bytes |-> ""]
    ELSE IF svc \in {"raise", ""}
    THEN [steps |-> <<"query">>, skipped |-> FALSE, write |-> NoWrite,
          crashed |-> FALSE, up |-> "",
          url |-> "", bytes |-> ""]
    ELSE IF dl # "ok"
    THEN [steps |-> <<"query", "fetch">>, skipped |-> FALSE, write |-> NoWrite,
          crashed |-> FALSE, up |-> "",
          url |-> "src", bytes |-> ""]
    ELSE IF save = "raise"
    THEN [steps |-> <<"query", "fetch", "save">>, skipped |-> FALSE,
          write |-> NoWrite, crashed |-> TRUE, up |-> "",
          url |-> "src", bytes |-> "ok"]
    ELSE IF up = "raise"
    THEN [steps |-> <<"query", "fetch", "save", "upload">>, skipped |-> FALSE,
          write |-> NoWrite, crashed |-> TRUE, up |-> "",
          url |-> "src", bytes |-> "ok"]
    ELSE IF up = ""
    THEN [steps |-> <<"query", "fetch", "save", "upload">>, skipped |-> FALSE,
          write |-> NoWrite, crashed |-> FALSE, up |-> "",
          url |-> "src", bytes |-> "ok"]
    ELSE [steps |-> <<"query", "fetch", "save", "upload", "record">>,
          skipped |-> FALSE, write |-> up, crashed |-> FALSE, up |-> up,
          url |-> "src", bytes |-> "ok"]

\* the loop body under everything the service, the download, the local save and
\* the upload can do
LoopOutcomes(existing, overwrite, key) ==
    {LoopBody(existing, overwrite, svc, dl, save, up) :
        svc \in SvcOutcomes(key), dl \in DlOutcomes, save \in SaveOutcomes,
        up \in UpOutcomes}

BatchInit ==
    /\ b_overwrite \in BOOLEAN
    /\ b_skipBlank \in BOOLEAN
    /\ b_input \in Inputs
    /\ b_pc = "start"
    /\ b_df = NoTable
    /\ b_df0 = NoTable
    /\ b_row = 0
    /\ b_k = 0
    /\ b_last = NoLast
    /\ b_written = NoTable

\* main() up to the row loop: read the workbook, check the product column,
\* add the missing provider columns
ReadInput ==
    /\ b_pc = "start"
    /\ IF b_input.kind # "ok"
       THEN /\ b_pc' = "exit"
            /\ UNCHANGED <<b_df, b_df0, b_row>>
       ELSE /\ b_pc' = "rows"
            /\ b_df' = EnsureColumns(b_input.rows)
            /\ b_df0' = EnsureColumns(b_input.rows)
            /\ b_row' = 1
    /\ UNCHANGED <<b_overwrite, b_skipBlank, b_input, b_k, b_last, b_written>>
    /\ UNCHANGED nonBatchVars

\* mutant: only a missing product name counts as blank
RowSkippedUntrimmed(skipBlank, product_val) == skipBlank /\ product_val = NaN

\* if SKIP_IF_PRODUCT_BLANK and not product
RowSkipped(skipBlank, product_val) == skipBlank /\ StripCell(product_val) = ""

\* mutant: the first provider is recorded in the "Image URL" column
ColumnOfShared(key) == IF key = "bing" THEN "image" ELSE key

\* service_to_column: the column of a provider (the fields of a row are
\* product for PRODUCT_COL, image for IMAGE_COL, and the provider keys for
\* image_bing, image_openverse, image_duckduckgo)
ColumnOf(key) == key

\* the head of the row loop: read the product name, skip a blank one
StartRow ==
    /\ b_pc = "rows" /\ b_k = 0 /\ b_row <= Len(b_df)
    /\ IF RowSkipped(b_skipBlank, b_df[b_row].product)
       THEN b_row' = b_row + 1 /\ b_k' = 0
       ELSE b_row' = b_row /\ b_k' = 1
    /\ UNCHANGED <<b_overwrite, b_skipBlank, b_input, b_pc, b_df, b_df0, b_last,
                   b_written>>
    /\ UNCHANGED nonBatchVars

\* one iteration of the services loop
ProcessService ==
    /\ b_pc = "rows" /\ b_k \in 1..Len(Services)
    /\ LET key == Services[b_k]
           existing == StripCell(b_df[b_row][ColumnOf(key)])
       IN \E o \in LoopOutcomes(existing, b_overwrite, key) :
            /\ b_last' = [row |-> b_row, svc |-> key, steps |-> o.steps,
                          skipped |-> o.skipped, up |-> o.up, url |-> o.url,
                          bytes |-> o.bytes]
            /\ b_df' = IF o.write = NoWrite THEN b_df
                       ELSE [b_df EXCEPT ![b_row][ColumnOf(key)] = o.write]
            /\ IF o.crashed
               THEN b_pc' = "crashed" /\ UNCHANGED <<b_row, b_k>>
               ELSE /\ b_pc' = b_pc
                    /\ IF b_k < Len(Services)
                       THEN b_k' = b_k + 1 /\ b_row' = b_row
                       ELSE b_k' = 0 /\ b_row' = b_row + 1
    /\ UNCHANGED <<b_overwrite, b_skipBlank, b_input, b_df0, b_written>>
    /\ UNCHANGED nonBatchVars

\* df.to_excel(EXCEL_PATH) after the last row
SaveTable ==
    /\ b_pc = "rows" /\ b_k = 0 /\ b_row > Len(b_df)
    /\ b_written' = b_df
    /\ b_pc' = "done"
    /\ UNCHANGED <<b_overwrite, b_skipBlank, b_input, b_df, b_df0, b_row, b_k, b_last>>
    /\ UNCHANGED nonBatchVars

BatchNext ==
    \/ ReadInput
    \/ StartRow
    \/ ProcessService
    \/ SaveTable

(***************************************************************************)
(* The normalizer of the upload backends: _maybe_convert_image             *)
(***************************************************************************)
\* self.max_bytes
MaxBytes(backend) ==
    IF backend = "imgbb" THEN 15 * 1024 * 1024 ELSE 195 * 1024 * 1024

\* the calls: ImgbbUploader.upload, CatboxUploader.upload,
\* CatboxUploader.upload_url
UploadCalls == {"imgbb", "catbox", "catbox_url"}

None == "None"

ContentTypes == {None, "image/png", "image/gif", "image/jpeg", "image/webp", "IMAGE/WEBP"}

\* content_type.lower()
Lower(ct) ==
    IF ct = "IMAGE/WEBP" THEN "image/webp"
    ELSE IF ct = "IMAGE/JPEG" THEN "image/jpeg"
    ELSE ct

\* "webp" in content_type.lower(), for a content type that is not None
HasWebp(ct) == Lower(ct) = "image/webp"

\* the source URLs an image may come from: with and without a known suffix
SourceUrls == {"http://s/p.png", "http://s/p"}

\* helpers.guess_ext_and_type
guess_ext_and_type(url, content_type) ==
    LET ct == IF content_type = None THEN "" ELSE Lower(content_type)
    IN IF ct = "image/jpeg" THEN <<".jpg", "image/jpeg">>
       ELSE IF ct = "image/png" \/ url = "http://s/p.png" THEN <<".png", "image/png">>
       ELSE IF ct = "image/gif" THEN <<".gif", "image/gif">>
       ELSE IF ct = "image/webp" THEN <<".webp", "image/webp">>
       ELSE <<".jpg", "image/jpeg">>

\* bytes: what they are and how many
Bytes(id, len) == [id |-> id, len |-> len]

\* too_big or needs_convert
ConvertTriggered(bytes_in, content_type, backend) ==
    bytes_in.len > MaxBytes(backend) \/ (content_type # None /\ HasWebp(content_type))

\* mutant: the bytes are re-encoded whether or not conversion is triggered
MaybeConvertAlways(bytes_in, content_type, backend, pil_ok, decodes) ==
    IF pil_ok /\ decodes
    THEN [bytes |-> Bytes("jpeg", 1), ext |-> ".jpg", mimetype |-> "image/jpeg"]
    ELSE [bytes |-> bytes_in, ext |-> ".jpg", mimetype |-> "image/jpeg"]

\* _maybe_convert_image; decodes: Image.open / convert / save do not raise
MaybeConvert(bytes_in, content_type, backend, pil_ok, decodes) ==
    IF ConvertTriggered(bytes_in, content_type, backend) /\ pil_ok /\ decodes
    THEN [bytes |-> Bytes("jpeg", 1), ext |-> ".jpg", mimetype |-> "image/jpeg"]
    ELSE [bytes |-> bytes_in, ext |-> ".jpg", mimetype |-> "image/jpeg"]

(***************************************************************************)
(* The export phase of the interactive orchestrator: streamlit_app.py      *)
(***************************************************************************)
\* the image URLs a service returned for a row, in order
SvcUrls(svc) ==
    IF svc = "bing" THEN <<"b1", "b2", "b3", "b4">>
    ELSE IF svc = "openverse" THEN <<"o1", "o2", "o3", "o4">>
    ELSE <<"d1", "d2", "d3", "d4">>

NextSvc(svc) ==
    IF svc = "bing" THEN "openverse"
    ELSE IF svc = "openverse" THEN "duckduckgo"
    ELSE "bing"

\* fetched_items[idx] and selections[idx] as the render pass leaves them for a
\* row: no valid image (no entry at all), or f images of service m and one of
\* the next service, the first k of m's checked.  The dict is the sequence of
\* its (key, value) pairs in insertion order.
RowState(m, f, k) ==
    IF f = 0 THEN [items |-> <<>>, sel |-> <<>>]
    ELSE [items |-> [j \in 1..f |-> [svc |-> m, url |-> SvcUrls(m)[j]]]
                    \o <<[svc |-> NextSvc(m), url |-> SvcUrls(NextSvc(m))[1]]>>,
          sel |-> <<[svc |-> m, urls |-> SubSeq(SvcUrls(m), 1, k)],
                    [svc |-> NextSvc(m), urls |-> <<>>]>>]

RowStates(m) ==
    {RowState(m, 0, 0)} \cup
    {RowState(m, IF k = 0 THEN 1 ELSE k, k) : k \in 0..MaxSel}

\* what upload_host_safe returns: (url, 'ok'), (None, 'ok'), (None, 'timeout'),
\* (None, 'error')
UploadSafeOutcomes ==
    {[status |-> "ok", url |-> "hosted"]}
    \cup {[status |-> st, url |-> ""] : st \in {"ok", "timeout", "error"}}

\* where the bytes of a chosen URL come from: the preview cache, or
\* download_image on a miss, which gives bytes or nothing
RedownloadOutcomes == {"ok", "fail"}

BytesOutcomes(chosen, cache) ==
    IF \A i \in 1..Len(chosen) : chosen[i] \in cache
    THEN {[i \in 1..Len(chosen) |-> "hit"]}
    ELSE {d \in [1..Len(chosen) -> RedownloadOutcomes \cup {"hit"}] :
            \A i \in 1..Len(chosen) : (d[i] = "hit") <=> (chosen[i] \in cache)}

\* mutant: a timeout leaves the slot blank
ExportOneBlankOnTimeout(u, dl, up) ==
    IF dl = "fail" THEN <<>>
    ELSE IF up.status = "ok" /\ up.url # "" THEN <<up.url>>
    ELSE IF up.status = "timeout" THEN <<"">>
    ELSE <<u>>

\* the body of `for k, u in enumerate(chosen)`: the link appended to out_links,
\* if any
ExportOne(u, dl, up) ==
    IF dl = "fail" THEN <<>>
    ELSE IF up.status = "ok" /\ up.url # "" THEN <<up.url>>
    ELSE <<u>>

RECURSIVE OutLinksPrepend(_, _, _, _)
\* mutant: each link is put in front of the links recorded so far
OutLinksPrepend(chosen, dls, ups, i) ==
    IF i > Len(chosen) THEN <<>>
    ELSE OutLinksPrepend(chosen, dls, ups, i + 1) \o ExportOne(chosen[i], dls[i], ups[i])

RECURSIVE OutLinks(_, _, _, _)
\* out_links after the loop over chosen
OutLinks(chosen, dls, ups, i) ==
    IF i > Len(chosen) THEN <<>>
    ELSE ExportOne(chosen[i], dls[i], ups[i]) \o OutLinks(chosen, dls, ups, i + 1)

\* mutant: the links are written into the last slots
WriteSlotsFromEnd(links, n) ==
    [j \in 1..n |-> IF j > n - Len(links) THEN links[j - (n - Len(links))] ELSE ""]

\* df.at[idx, f"{prefix}_{n}"] = out_links[n-1] if n-1 < len(out_links) else ""
WriteSlots(links, n) == [j \in 1..n |-> IF j <= Len(links) THEN links[j] ELSE ""]

\* the Content-Type the server of an image URL declares: the first image of
\* each service is served as WEBP
ServedType(u) == IF u \in {"b1", "o1", "d1"} THEN "image/webp" ELSE "image/png"

\* the bytes of an image as served
ServedBytes(u) == Bytes(IF HasWebp(ServedType(u)) THEN "webp" ELSE "png", 1)

\* the upload hosts of the sidebar: ImgbbUploader, CatboxUploader
UploadHosts == {"imgbb", "catbox"}

\* ct of each chosen URL: None with bytes from the cache, the Content-Type of
\* the response with bytes from download_image
ExportTypes(chosen, dls) ==
    [i \in 1..Len(chosen) |-> IF dls[i] = "ok" THEN ServedType(chosen[i]) ELSE None]

\* what uploader.upload sends for each chosen URL with bytes: the bytes after
\* _maybe_convert_image, with Pillow present and the image decodable
ExportSent(chosen, dls, host) ==
    [i \in 1..Len(chosen) |->
        IF dls[i] = "fail" THEN Bytes("none", 0)
        ELSE MaybeConvert(ServedBytes(chosen[i]), ExportTypes(chosen, dls)[i], host,
                          TRUE, TRUE).bytes]

\* cache_bytes[it["url"]] = it["bytes"] over all fetched items
CacheOf(items) ==
    UNION {{items[r][j].url : j \in DOMAIN items[r]} : r \in DOMAIN items}

NoExportLast ==
    [row |-> 0, svc |-> "", chosen |-> <<>>, dls |-> <<>>, cts |-> <<>>, sent |-> <<>>,
     ups |-> <<>>, links |-> <<>>]

ExportIdle ==
    /\ e_N = 1 /\ e_host = "imgbb" /\ e_cols = TRUE /\ e_items = <<>> /\ e_sel = <<>> /\ e_pc = "idle"
    /\ e_df = <<>> /\ e_df0 = <<>> /\ e_cache = {} /\ e_row = 0 /\ e_k = 0
    /\ e_last = NoExportLast /\ e_out = <<>>

ServiceSet == {"bing", "openverse", "duckduckgo"}

\* the export button is pressed, after the render pass of the same run
ExportInit ==
    /\ e_N \in 1..MaxImages
    /\ e_cols \in BOOLEAN
    /\ e_host \in UploadHosts
    /\ \E m \in ServiceSet, n \in 1..MaxRows :
         \E rs \in [1..n -> RowStates(m)] :
            /\ e_items = [r \in 1..n |-> rs[r].items]
            /\ e_sel = [r \in 1..n |-> rs[r].sel]
            /\ e_df = [r \in 1..n |-> [svc \in ServiceSet |->
                         [j \in 1..e_N |-> IF e_cols THEN "old" ELSE Absent]]]
    /\ e_pc = "start"
    /\ e_df0 = <<>>
    /\ e_cache = {}
    /\ e_row = 0
    /\ e_k = 0
    /\ e_last = NoExportLast
    /\ e_out = <<>>

\* the slot columns are added where missing, the uploader is made, the preview
\* bytes are cached by URL
ExportStart ==
    /\ e_pc = "start"
    /\ e_df' = [r \in DOMAIN e_df |-> [svc \in ServiceSet |->
                  [j \in 1..e_N |-> IF e_df[r][svc][j] = Absent THEN ""
                                   ELSE e_df[r][svc][j]]]]
    /\ e_df0' = e_df'
    /\ e_cache' = CacheOf(e_items)
    /\ e_row' = 1
    /\ e_k' = 0
    /\ e_pc' = "rows"
    /\ UNCHANGED <<e_N, e_host, e_cols, e_items, e_sel, e_last, e_out>>
    /\ UNCHANGED nonExportVars

\* the head of the row loop: a row without selections is skipped
ExportRow ==
    /\ e_pc = "rows" /\ e_k = 0 /\ e_row <= Len(e_df)
    /\ IF e_sel[e_row] = <<>>
       THEN e_row' = e_row + 1 /\ e_k' = 0
       ELSE e_row' = e_row /\ e_k' = 1
    /\ UNCHANGED <<e_N, e_host, e_cols, e_items, e_sel, e_pc, e_df, e_df0, e_cache, e_last,
                   e_out>>
    /\ UNCHANGED nonExportVars

\* one iteration of `for svc_key, urls in row_sel.items()`
ExportService ==
    /\ e_pc = "rows" /\ e_row <= Len(e_df) /\ e_k \in 1..Len(e_sel[e_row])
    /\ LET entry == e_sel[e_row][e_k]
           chosen == Take(entry.urls, e_N)
       IN \E dls \in BytesOutcomes(chosen, e_cache),
             ups \in [1..Len(chosen) -> UploadSafeOutcomes] :
            LET links == OutLinks(chosen, dls, ups, 1)
            IN /\ e_df' = [e_df EXCEPT ![e_row][entry.svc] = WriteSlots(links, e_N)]
               /\ e_last' = [row |-> e_row, svc |-> entry.svc, chosen |-> chosen,
                             dls |-> dls, cts |-> ExportTypes(chosen, dls),
                             sent |-> ExportSent(chosen, dls, e_host),
                             ups |-> ups, links |-> links]
    /\ IF e_k < Len(e_sel[e_row])
       THEN e_k' = e_k + 1 /\ e_row' = e_row
       ELSE e_k' = 0 /\ e_row' = e_row + 1
    /\ UNCHANGED <<e_N, e_host, e_cols, e_items, e_sel, e_pc, e_df0, e_cache, e_out>>
    /\ UNCHANGED nonExportVars

\* df.to_excel into the download
ExportFinish ==
    /\ e_pc = "rows" /\ e_k = 0 /\ e_row > Len(e_df)
    /\ e_out' = e_df
    /\ e_pc' = "done"
    /\ UNCHANGED <<e_N, e_host, e_cols, e_items, e_sel, e_df, e_df0, e_cache, e_row, e_k,
                   e_last>>
    /\ UNCHANGED nonExportVars

ExportNext ==
    \/ ExportStart
    \/ ExportRow
    \/ ExportService
    \/ ExportFinish

(***************************************************************************)
(* The name sanitizer: helpers.safe_name, ImgbbUploader._safe_name,        *)
(* CatboxUploader._safe_name.  A string is the sequence of its characters. *)
(***************************************************************************)
\* characters the pattern [^A-Za-z0-9._-]+ does not match
SafeChars == {"a", "Z", "7", ".", "_", "-"}

\* characters it matches
OtherChars == {" ", "/"}

RECURSIVE ReSub(_, _, _, _)
\* re.sub(r"[^A-Za-z0-9._-]+", "_", s): a left-to-right scan in which every
\* maximal match is replaced once
ReSub(s, i, inMatch, out) ==
    IF i > Len(s) THEN out
    ELSE IF s[i] \in SafeChars THEN ReSub(s, i + 1, FALSE, Append(out, s[i]))
    ELSE IF inMatch THEN ReSub(s, i + 1, TRUE, out)
    ELSE ReSub(s, i + 1, TRUE, Append(out, "_"))

RECURSIVE LStrip(_)
LStrip(s) == IF s # <<>> /\ Head(s) = "_" THEN LStrip(Tail(s)) ELSE s

RECURSIVE RStrip(_)
RStrip(s) ==
    IF s # <<>> /\ s[Len(s)] = "_" THEN RStrip(SubSeq(s, 1, Len(s) - 1)) ELSE s

\* .strip("_")
StripUnderscores(s) == RStrip(LStrip(s))

DefaultName(fn) ==
    IF fn = "catbox" THEN <<"f", "i", "l", "e">> ELSE <<"i", "m", "a", "g", "e">>

\* mutant: the separators at the ends are kept
SafeNameUnstripped(s, fn) ==
    LET t == ReSub(s, 1, FALSE, <<>>)
    IN IF t = <<>> THEN DefaultName(fn) ELSE t

\* re.sub(...).strip("_") or "image" (or "file"); fn is one of "helpers",
\* "imgbb", "catbox"
SafeName(s, fn) ==
    LET t == StripUnderscores(ReSub(s, 1, FALSE, <<>>))
    IN IF t = <<>> THEN DefaultName(fn) ELSE t

(***************************************************************************)
(* The upload backends: uploaders/imgbb.py, catboxmoe.py                   *)
(***************************************************************************)
UP_RETRY_STATUS_CODES == {429, 500, 502, 503, 504}
UP_MAX_RETRIES == 2

\* a response to the POST, or the exception requests.post raised
UpExc == [kind |-> "exc", status |-> 0, body |-> ""]

UpHttp(status, body) == [kind |-> "http", status |-> status, body |-> body]

UpNoResponse == [kind |-> "none", status |-> 0, body |-> ""]

\* bodies of ImgBB: not JSON; a JSON list; {}; {"success": false};
\* {"success": true}; {"success": true, "data": "x"};
\* {"success": true, "data": {}}; {"success": true, "data": {"display_url":
\* null}}; {"success": true, "data": {"display_url": "http://h/1"}}
ImgbbBodies ==
    {"not_json", "json_list", "no_flag", "flag_false", "flag_no_data",
     "flag_data_str", "flag_data_no_url", "flag_url_null", "success"}

\* bodies of Catbox: the URL, the URL with white space around it, an error
\* text, nothing
CatboxBodies == {"http://h/1", " http://h/1\n", "ERROR: x", ""}

UpBodies(backend) == IF backend = "imgbb" THEN ImgbbBodies ELSE CatboxBodies

SuccessBody(backend) == IF backend = "imgbb" THEN "success" ELSE " http://h/1\n"

ErrorBody(backend) == IF backend = "imgbb" THEN "not_json" ELSE "ERROR: x"

UpStatuses == {200, 400, 429, 503}

\* what one POST may give: every body under 200, an error text or a body of
\* the success shape under the other statuses
UpResponses(backend) ==
    {UpExc}
    \cup {UpHttp(200, b) : b \in UpBodies(backend)}
    \cup {UpHttp(s, b) : s \in UpStatuses \ {200},
                         b \in {SuccessBody(backend), ErrorBody(backend)}}

\* r.ok
Ok200(r) == r.kind = "http" /\ r.status < 400

\* mutant: every error status is retried
UpContinueAnyError(resp) ==
    resp.kind = "exc" \/ resp.status >= 400

\* `continue` in the retry loop: after an exception, or a status of the list
UpContinue(resp) ==
    resp.kind = "exc" \/ resp.status \in UP_RETRY_STATUS_CODES

UpNone == [kind |-> "None", url |-> "", exc |-> ""]

UpUrl(u) == [kind |-> "url", url |-> u, exc |-> ""]

UpRaise(exc) == [kind |-> "raised", url |-> "", exc |-> exc]

UpNotReturned == [kind |-> "running", url |-> "", exc |-> ""]

\* .strip() of a Catbox body
StripText(t) == IF t = " http://h/1\n" THEN "http://h/1" ELSE t

\* text.startswith("http")
StartsWithHttp(t) == t = "http://h/1"

\* ImgbbUploader.upload after the loop, lines 64-71
ImgbbParse(r) ==
    IF r.kind = "none" \/ ~Ok200(r) THEN UpNone
    ELSE IF r.body = "not_json" THEN UpNone
    ELSE IF r.body = "json_list" THEN UpRaise("AttributeError")
    ELSE IF r.body \in {"no_flag", "flag_false"} THEN UpNone
    ELSE IF r.body \in {"flag_no_data", "flag_data_no_url"} THEN UpRaise("KeyError")
    ELSE IF r.body = "flag_data_str" THEN UpRaise("TypeError")
    ELSE IF r.body = "flag_url_null" THEN UpNone
    ELSE UpUrl("http://h/1")

\* CatboxUploader.upload / upload_url after the loop, lines 85-89, 112-115
CatboxParse(r) ==
    LET text == IF r.kind = "none" THEN "" ELSE StripText(r.body)
    IN IF r.kind # "none" /\ Ok200(r) /\ StartsWithHttp(text) THEN UpUrl(text)
       ELSE UpNone

\* mutant: the status of the response is not looked at
UpParseAnyStatus(backend, r) ==
    IF backend = "imgbb"
    THEN ImgbbParse(IF r.kind = "http" THEN UpHttp(200, r.body) ELSE r)
    ELSE CatboxParse(IF r.kind = "http" THEN UpHttp(200, r.body) ELSE r)

UpParse(backend, r) ==
    IF backend = "imgbb" THEN ImgbbParse(r) ELSE CatboxParse(r)

\* display names: one that sanitizes to itself with separators, one that
\* leaves nothing
UpNames == {<<"a", " ", "/", "Z">>, <<" ", "/">>}

UpSizes(backend) == {1, MaxBytes(backend), MaxBytes(backend) + 1}

NoSent == [bytes |-> Bytes("", 0), ext |-> "", mimetype |-> "", stem |-> <<>>]

UploadIdle ==
    /\ u_call = "imgbb" /\ u_raw = Bytes("", 0) /\ u_ct = None /\ u_url = ""
    /\ u_name = <<>> /\ u_pil = TRUE /\ u_pc = "idle" /\ u_conv = "no"
    /\ u_sent = NoSent /\ u_r = UpNoResponse /\ u_log = <<>>
    /\ u_result = UpNotReturned

\* the call is made: upload(raw, display_name, content_type) on bytes that
\* came from u_url, or upload_url(source_url)
UploadInit ==
    /\ u_call \in UploadCalls
    /\ u_pil \in BOOLEAN
    /\ u_url \in SourceUrls
    /\ IF u_call = "catbox_url"
       THEN u_raw = Bytes("", 0) /\ u_ct = None /\ u_name = <<>> /\ u_pil = TRUE
       ELSE /\ u_raw \in {Bytes("raw", n) : n \in UpSizes(u_call)}
            /\ u_ct \in ContentTypes
            /\ u_name \in UpNames
    /\ u_pc = "start"
    /\ u_conv = "no"
    /\ u_sent = NoSent
    /\ u_r = UpNoResponse
    /\ u_log = <<>>
    /\ u_result = UpNotReturned

\* lines 44-51 of imgbb.py, 62-71 of catboxmoe.py: the normalizer, the file
\* name, r = None; upload_url sends the URL and no file
UploadPrepare ==
    /\ u_pc = "start"
    /\ IF u_call = "catbox_url"
       THEN u_sent' = NoSent /\ u_conv' = "no"
       ELSE \E decodes \in BOOLEAN :
              LET out == MaybeConvert(u_raw, u_ct, u_call, u_pil, decodes)
              IN /\ u_sent' = [bytes |-> out.bytes, ext |-> out.ext,
                               mimetype |-> out.mimetype,
                               stem |-> SafeName(u_name, u_call)]
                 /\ u_conv' = IF ~ConvertTriggered(u_raw, u_ct, u_call) THEN "no"
                              ELSE IF ~u_pil THEN "no codec"
                              ELSE IF ~decodes THEN "failed"
                              ELSE "done"
    /\ u_pc' = "loop"
    /\ UNCHANGED <<u_call, u_raw, u_ct, u_url, u_name, u_pil, u_r, u_log, u_result>>
    /\ UNCHANGED nonUploadVars

\* one iteration of `for attempt in range(self.max_retries + 1)`
UploadAttempt ==
    /\ u_pc = "loop"
    /\ Len(u_log) < UP_MAX_RETRIES + 1
    /\ \E resp \in UpResponses(IF u_call = "imgbb" THEN "imgbb" ELSE "catbox") :
         /\ u_log' = Append(u_log, resp)
         /\ u_r' = IF resp.kind = "exc" THEN u_r ELSE resp
         /\ u_pc' = IF UpContinue(resp) /\ Len(u_log) + 1 < UP_MAX_RETRIES + 1
                    THEN "loop" ELSE "parse"
    /\ UNCHANGED <<u_call, u_raw, u_ct, u_url, u_name, u_pil, u_conv, u_sent,
                   u_result>>
    /\ UNCHANGED nonUploadVars

\* the code after the loop: the kept response is read
UploadFinish ==
    /\ u_pc = "parse"
    /\ u_result' = UpParse(IF u_call = "imgbb" THEN "imgbb" ELSE "catbox", u_r)
    /\ u_pc' = "done"
    /\ UNCHANGED <<u_call, u_raw, u_ct, u_url, u_name, u_pil, u_conv, u_sent, u_r,
                   u_log>>
    /\ UNCHANGED nonUploadVars

UploadNext ==
    \/ UploadPrepare
    \/ UploadAttempt
    \/ UploadFinish

(***************************************************************************)
(* upload_host_safe and its worker threads: streamlit_app.py:103-127.      *)
(* The export calls it once per chosen image; the worker of a call that    *)
(* timed out keeps running while the later calls are made.                 *)
(***************************************************************************)
\* result = {"url": None, "exc": None}
FreshResult == [url |-> None, exc |-> None]

\* what uploader.upload does in the worker: returns a URL, returns None, raises
WorkerOutcomes ==
    {[url |-> "hosted", exc |-> None], [url |-> None, exc |-> None],
     [url |-> None, exc |-> "Exception"]}

\* mutant: the result the worker has written is returned although the thread
\* is still alive
SafeReturnLeaky(alive, result) ==
    IF alive THEN [url |-> result.url, status |-> "timeout"]
    ELSE IF result.exc # None THEN [url |-> None, status |-> "error"]
    ELSE [url |-> result.url, status |-> "ok"]

\* lines 121-127: what upload_host_safe returns after the join
SafeReturn(alive, result) ==
    IF alive THEN [url |-> None, status |-> "timeout"]
    ELSE IF result.exc # None THEN [url |-> None, status |-> "error"]
    ELSE [url |-> result.url, status |-> "ok"]

\* lines 417-427 of the export: the link recorded for source URL u
LinkFor(u, ret) ==
    IF ret.status = "ok" /\ ret.url # None THEN ret.url ELSE u

ThreadIdle ==
    /\ t_n = 0 /\ t_pc = "idle" /\ t_i = 0 /\ t_worker = <<>> /\ t_result = <<>>
    /\ t_rets = <<>> /\ t_links = <<>> /\ t_slots = <<>>

\* the loop over the chosen images of one row and provider starts
ThreadInit ==
    /\ t_n \in 1..MaxUploads
    /\ t_pc = "call"
    /\ t_i = 1
    /\ t_worker = [i \in 1..t_n |-> "unstarted"]
    /\ t_result = [i \in 1..t_n |-> FreshResult]
    /\ t_rets = <<>>
    /\ t_links = <<>>
    /\ t_slots = <<>>

\* upload_host_safe is entered: the result dict is made, the thread started
SafeStart ==
    /\ t_pc = "call"
    /\ t_worker' = [t_worker EXCEPT ![t_i] = "running"]
    /\ t_pc' = "join"
    /\ UNCHANGED <<t_n, t_i, t_result, t_rets, t_links, t_slots>>
    /\ UNCHANGED nonThreadVars

\* _run of some call: uploader.upload comes back and its outcome is written
\* to result
WorkerWrites ==
    /\ \E i \in 1..t_n :
         /\ t_worker[i] = "running"
         /\ \E o \in WorkerOutcomes : t_result' = [t_result EXCEPT ![i] = o]
         /\ t_worker' = [t_worker EXCEPT ![i] = "written"]
    /\ UNCHANGED <<t_n, t_pc, t_i, t_rets, t_links, t_slots>>
    /\ UNCHANGED nonThreadVars

\* _run of some call returns and the thread ends
WorkerExits ==
    /\ \E i \in 1..t_n :
         /\ t_worker[i] = "written"
         /\ t_worker' = [t_worker EXCEPT ![i] = "ended"]
    /\ UNCHANGED <<t_n, t_pc, t_i, t_result, t_rets, t_links, t_slots>>
    /\ UNCHANGED nonThreadVars

\* t.join(timeout) returns because the thread has ended
JoinEnded ==
    /\ t_pc = "join"
    /\ t_worker[t_i] = "ended"
    /\ t_pc' = "joined"
    /\ UNCHANGED <<t_n, t_i, t_worker, t_result, t_rets, t_links, t_slots>>
    /\ UNCHANGED nonThreadVars

\* t.join(timeout) returns because the timeout has passed
JoinTimedOut ==
    /\ t_pc = "join"
    /\ t_worker[t_i] # "ended"
    /\ t_pc' = "joined"
    /\ UNCHANGED <<t_n, t_i, t_worker, t_result, t_rets, t_links, t_slots>>
    /\ UNCHANGED nonThreadVars

\* t.is_alive() is read, upload_host_safe returns, the export records the link
SafeReturns ==
    /\ t_pc = "joined"
    /\ LET ret == SafeReturn(t_worker[t_i] # "ended", t_result[t_i])
       IN /\ t_rets' = Append(t_rets, ret)
          /\ t_links' = Append(t_links, LinkFor(SvcUrls("bing")[t_i], ret))
    /\ IF t_i < t_n
       THEN t_i' = t_i + 1 /\ t_pc' = "call"
       ELSE t_i' = t_i /\ t_pc' = "write"
    /\ UNCHANGED <<t_n, t_worker, t_result, t_slots>>
    /\ UNCHANGED nonThreadVars

\* lines 435-437: out_links go into the slots of the table
SlotsWritten ==
    /\ t_pc = "write"
    /\ t_slots' = WriteSlots(t_links, t_n)
    /\ t_pc' = "done"
    /\ UNCHANGED <<t_n, t_i, t_worker, t_result, t_rets, t_links>>
    /\ UNCHANGED nonThreadVars

ThreadNext ==
    \/ SafeStart
    \/ WorkerWrites
    \/ WorkerExits
    \/ JoinEnded
    \/ JoinTimedOut
    \/ SafeReturns
    \/ SlotsWritten

(***************************************************************************)
(* One call of a name sanitizer on an input string                         *)
(***************************************************************************)
Sanitizers == {"helpers", "imgbb", "catbox"}

NameChars == SafeChars \cup OtherChars

SanitizerIdle == n_fn = "helpers" /\ n_in = <<>> /\ n_pc = "idle" /\ n_out = <<>>

SanitizerInit ==
    /\ n_fn \in Sanitizers
    /\ n_in \in SeqsUpTo(NameChars, MaxNameLen)
    /\ n_pc = "call"
    /\ n_out = <<>>

\* safe_name(s) / _safe_name(s) returns
Sanitize ==
    /\ n_pc = "call"
    /\ n_out' = SafeName(n_in, n_fn)
    /\ n_pc' = "done"
    /\ UNCHANGED <<n_fn, n_in>>
    /\ UNCHANGED nonSanitizerVars

SanitizerNext == Sanitize

(***************************************************************************)
(* The call as a state machine.                                            *)
(***************************************************************************)
ProvInit ==
    /\ p_prov \in Providers
    /\ p_limit \in 1..MaxLimit
    /\ p_key \in (IF p_prov = "google" THEN BOOLEAN ELSE {TRUE})
    /\ p_cx \in (IF p_prov = "google" THEN BOOLEAN ELSE {TRUE})
    /\ p_newreq \in (IF p_prov \in {"openverse", "duckduckgo"} THEN BOOLEAN ELSE {TRUE})
    /\ p_pc = "start"
    /\ p_attempt = 0
    /\ p_page = NoPage
    /\ p_vqd = ""
    /\ p_resps = <<>>
    /\ p_result = NoResult

ProvIdle ==
    /\ p_prov = "bing" /\ p_limit = 1 /\ p_key = TRUE /\ p_cx = TRUE
    /\ p_newreq = TRUE /\ p_pc = "idle" /\ p_attempt = 0 /\ p_page = NoPage
    /\ p_vqd = "" /\ p_resps = <<>> /\ p_result = NoResult

\* BingService.image_urls: one request
BingCall ==
    /\ p_pc = "start" /\ p_prov \in {"bing", "bing_service"}
    /\ \E r \in Responses(p_prov) :
         /\ p_resps' = <<r>>
         /\ p_result' = BingImageUrls(r, p_limit, p_prov = "bing_service")
    /\ p_pc' = "done"
    /\ UNCHANGED <<p_prov, p_limit, p_key, p_cx, p_newreq, p_attempt, p_page, p_vqd>>
    /\ UNCHANGED nonProvVars

\* GoogleService.image_urls: no request without both credentials
GoogleCall ==
    /\ p_pc = "start" /\ p_prov = "google"
    /\ IF ~p_key \/ ~p_cx
       THEN /\ p_resps' = <<>>
            /\ p_result' = Returned(<<>>)
       ELSE \E r \in Responses(p_prov) :
              /\ p_resps' = <<r>>
              /\ p_result' = GoogleImageUrls(r, p_limit)
    /\ p_pc' = "done"
    /\ UNCHANGED <<p_prov, p_limit, p_key, p_cx, p_newreq, p_attempt, p_page, p_vqd>>
    /\ UNCHANGED nonProvVars

\* OpenverseService.image_urls: one iteration of the retry loop
OpenverseAttempt ==
    /\ p_prov = "openverse"
    /\ p_pc \in {"start", "loop"}
    /\ p_attempt < OV_MAX_RETRIES
    /\ \E r \in Responses(p_prov) :
         LET o == OvIteration(r, p_attempt, p_limit, p_newreq)
         IN /\ p_resps' = Append(p_resps, r)
            /\ IF o.kind = "return"
               THEN p_pc' = "done" /\ p_result' = Returned(o.urls)
                    /\ p_attempt' = p_attempt
               ELSE IF o.kind = "raise"
               THEN p_pc' = "done" /\ p_result' = Raised /\ p_attempt' = p_attempt
               ELSE IF p_attempt + 1 < OV_MAX_RETRIES
               THEN p_pc' = "loop" /\ p_result' = p_result
                    /\ p_attempt' = p_attempt + 1
               ELSE p_pc' = "done" /\ p_result' = Returned(<<>>)
                    /\ p_attempt' = p_attempt + 1
    /\ UNCHANGED <<p_prov, p_limit, p_key, p_cx, p_newreq, p_page, p_vqd>>
    /\ UNCHANGED nonProvVars

\* DuckDuckGoService._get_vqd: the token page arrives
DdgFetchPage ==
    /\ p_prov = "duckduckgo" /\ p_pc = "start"
    /\ p_page' \in PageResponses
    /\ p_pc' = "vqd"
    /\ UNCHANGED <<p_prov, p_limit, p_key, p_cx, p_newreq, p_attempt, p_vqd,
                   p_resps, p_result>>
    /\ UNCHANGED nonProvVars

\* _get_vqd returns; image_urls returns [] without a token
DdgGotVqd ==
    /\ p_prov = "duckduckgo" /\ p_pc = "vqd"
    /\ p_vqd' = GetVqd(p_page)
    /\ p_page' = NoPage
    /\ IF GetVqd(p_page) = ""
       THEN p_pc' = "done" /\ p_result' = Returned(<<>>)
       ELSE p_pc' = "loop" /\ p_result' = p_result
    /\ UNCHANGED <<p_prov, p_limit, p_key, p_cx, p_newreq, p_attempt, p_resps>>
    /\ UNCHANGED nonProvVars

\* _first_batch_urls: one iteration of the retry loop
DdgAttempt ==
    /\ p_prov = "duckduckgo" /\ p_pc = "loop"
    /\ p_attempt < DDG_MAX_RETRIES
    /\ \E r \in Responses(p_prov) :
         LET o == DdgIteration(r, p_limit, p_newreq)
         IN /\ p_resps' = Append(p_resps, r)
            /\ IF o.kind = "return"
               THEN p_pc' = "done" /\ p_result' = Returned(o.urls)
                    /\ p_attempt' = p_attempt
               ELSE IF p_attempt + 1 < DDG_MAX_RETRIES
               THEN p_pc' = "loop" /\ p_result' = p_result
                    /\ p_attempt' = p_attempt + 1
               ELSE p_pc' = "done" /\ p_result' = Returned(<<>>)
                    /\ p_attempt' = p_attempt + 1
    /\ UNCHANGED <<p_prov, p_limit, p_key, p_cx, p_newreq, p_page, p_vqd>>
    /\ UNCHANGED nonProvVars

ProvNext ==
    \/ BingCall
    \/ GoogleCall
    \/ OpenverseAttempt
    \/ DdgFetchPage
    \/ DdgGotVqd
    \/ DdgAttempt

(***************************************************************************)
(* The preview download: helpers.download_image and                        *)
(* streamlit_app.download_for_preview                                      *)
(***************************************************************************)
\* the statuses of the response to the GET
PreviewStatuses == {200, 404, 500}

\* resp.content: nothing, a well-formed image, a truncated image, not an image
PreviewContents == {"", "img", "trunc", "junk"}

\* resp.headers.get("Content-Type"): None without the header
PreviewTypes == {None, "", "image/png", "IMAGE/JPEG", "text/html"}

PreviewExc == [kind |-> "exc", status |-> 0, content |-> "", ct |-> None]

PreviewResponses ==
    {PreviewExc} \cup
    {[kind |-> "http", status |-> st, content |-> c, ct |-> t] :
        st \in PreviewStatuses, c \in PreviewContents, t \in PreviewTypes}

\* "image" in ct.lower()
HasImage(ct) == Lower(ct) \in {"image/png", "image/jpeg", "image/webp", "image/gif"}

\* Image.open(io.BytesIO(raw)).verify() does not raise
Verifies(raw) == raw = "img"

\* download_image: (content, Content-Type), or (None, None) on an exception,
\* raise_for_status included
download_image(resp) ==
    IF resp.kind = "exc" \/ resp.status >= 400
    THEN [raw |-> None, ct |-> None]
    ELSE [raw |-> resp.content, ct |-> resp.ct]

\* download_for_preview after download_image returned: the bytes or None
PreviewCheck(raw, ct) ==
    IF raw = None \/ raw = "" THEN None
    ELSE IF ct # None /\ ct # "" /\ ~HasImage(ct) THEN None
    ELSE IF Verifies(raw) THEN raw
    ELSE None

NoDownload == [raw |-> None, ct |-> None]

PreviewIdle == v_resp = PreviewExc /\ v_pc = "idle" /\ v_dl = NoDownload /\ v_out = None

PreviewInit ==
    /\ v_resp \in PreviewResponses
    /\ v_pc = "call"
    /\ v_dl = NoDownload
    /\ v_out = None

\* raw, ct = download_image(url, ua=UA, timeout=TIMEOUT)
PreviewDownload ==
    /\ v_pc = "call"
    /\ v_dl' = download_image(v_resp)
    /\ v_pc' = "downloaded"
    /\ UNCHANGED <<v_resp, v_out>>
    /\ UNCHANGED nonPreviewVars

\* the checks on raw and ct, and the return
PreviewReturn ==
    /\ v_pc = "downloaded"
    /\ v_out' = PreviewCheck(v_dl.raw, v_dl.ct)
    /\ v_pc' = "done"
    /\ UNCHANGED <<v_resp, v_dl>>
    /\ UNCHANGED nonPreviewVars

PreviewNext ==
    \/ PreviewDownload
    \/ PreviewReturn

(***************************************************************************)
(* The grid of the interactive app for one row: fetch, clear, auto-select, *)
(* checkbox toggles, and the render pass that ends each script run         *)
(***************************************************************************)
GridUrls == {"u1", "u2"}

\* the (provider, URL) pairs a fetch may keep for the row
GridPairs ==
    {[svc |-> "bing", url |-> "u1"], [svc |-> "openverse", url |-> "u1"],
     [svc |-> "openverse", url |-> "u2"], [svc |-> "duckduckgo", url |-> "u1"]}

\* the position of a provider in `services`
SvcRank(svc) == IF svc = "bing" THEN 1 ELSE IF svc = "openverse" THEN 2 ELSE 3

\* items of a row: the pairs in the order of `services`; Bing removes
\* duplicates, Openverse and DuckDuckGo do not
GridItemLists ==
    {it \in SeqsUpTo(GridPairs, MaxGridItems) :
        /\ \A i, j \in DOMAIN it : i < j => SvcRank(it[i].svc) <= SvcRank(it[j].svc)
        /\ \A i, j \in DOMAIN it :
              (i < j /\ it[i].svc = "bing" /\ it[j].svc = "bing") => it[i].url # it[j].url}

\* url in sel_list
InList(u, list) == \E i \in DOMAIN list : list[i] = u

\* sel_list.remove(url): the first occurrence goes
ListRemove(list, u) ==
    LET k == CHOOSE i \in DOMAIN list : list[i] = u /\ \A h \in 1..(i - 1) : list[h] # u
    IN SubSeq(list, 1, k - 1) \o SubSeq(list, k + 1, Len(list))

NoSelections == [svc \in ServiceSet |-> <<>>]

Unchecked(items) == [j \in DOMAIN items |-> FALSE]

RECURSIVE Render(_, _, _, _)
\* the render pass over the items of the row from item j on: the selection
\* list of each item's provider is synced with the item's checkbox
Render(items, ck, sel, j) ==
    IF j > Len(items) THEN sel
    ELSE LET svc == items[j].svc
             url == items[j].url
             l1 == IF ck[j] /\ ~InList(url, sel[svc]) THEN Append(sel[svc], url)
                   ELSE sel[svc]
             l2 == IF ~ck[j] /\ InList(url, l1) THEN ListRemove(l1, url) ELSE l1
         IN Render(items, ck, [sel EXCEPT ![svc] = l2], j + 1)

RECURSIVE AutoSelections(_, _, _, _)
\* auto-select: the selections after the first `take` items were added
AutoSelections(items, sel, take, j) ==
    IF j > take THEN sel
    ELSE LET svc == items[j].svc
             url == items[j].url
         IN AutoSelections(items,
                           IF InList(url, sel[svc]) THEN sel
                           ELSE [sel EXCEPT ![svc] = Append(sel[svc], url)],
                           take, j + 1)

GridIdle ==
    /\ g_fetched = FALSE /\ g_items = <<>> /\ g_ck = <<>> /\ g_sel = <<>>
    /\ g_run = "idle"

\* the session state of a new session
GridInit ==
    /\ g_fetched = FALSE
    /\ g_items = <<>>
    /\ g_ck = <<>>
    /\ g_sel = NoSelections
    /\ g_run = "none"

\* a script run after "Fetch images": the state is reset, the items are
\* fetched, the grid is rendered
RunFetch ==
    /\ \E it \in GridItemLists :
         /\ g_items' = it
         /\ g_ck' = Unchecked(it)
         /\ g_sel' = Render(it, Unchecked(it), NoSelections, 1)
    /\ g_fetched' = TRUE
    /\ g_run' = "fetch"
    /\ UNCHANGED nonGridVars

\* a script run after "Clear selections": selections and checkbox keys go,
\* the fetched items stay and are rendered
RunClear ==
    /\ g_fetched
    /\ g_ck' = Unchecked(g_items)
    /\ g_sel' = Render(g_items, Unchecked(g_items), NoSelections, 1)
    /\ g_run' = "clear"
    /\ UNCHANGED <<g_fetched, g_items>>
    /\ UNCHANGED nonGridVars

\* a script run after "Auto Select" with auto_n = n
RunAutoSelect ==
    /\ g_fetched
    /\ \E n \in 1..MaxImages :
         LET take == Min(n, Len(g_items))
             ck == [j \in DOMAIN g_items |-> IF j <= take THEN TRUE ELSE g_ck[j]]
         IN /\ g_ck' = ck
            /\ g_sel' = Render(g_items, ck, AutoSelections(g_items, g_sel, take, 1), 1)
    /\ g_run' = "auto"
    /\ UNCHANGED <<g_fetched, g_items>>
    /\ UNCHANGED nonGridVars

\* a script run after the user flipped the checkbox of item j
RunToggle ==
    /\ g_fetched
    /\ \E j \in DOMAIN g_items :
         LET ck == [g_ck EXCEPT ![j] = ~g_ck[j]]
         IN /\ g_ck' = ck
            /\ g_sel' = Render(g_items, ck, g_sel, 1)
    /\ g_run' = "toggle"
    /\ UNCHANGED <<g_fetched, g_items>>
    /\ UNCHANGED nonGridVars

GridNext ==
    \/ RunFetch
    \/ RunClear
    \/ RunAutoSelect
    \/ RunToggle

InitProvider ==
    ProvInit /\ BatchIdle /\ ExportIdle /\ UploadIdle /\ ThreadIdle
    /\ SanitizerIdle /\ PreviewIdle /\ GridIdle

InitBatch ==
    BatchInit /\ ProvIdle /\ ExportIdle /\ UploadIdle /\ ThreadIdle
    /\ SanitizerIdle /\ PreviewIdle /\ GridIdle

InitExport ==
    ExportInit /\ ProvIdle /\ BatchIdle /\ UploadIdle /\ ThreadIdle
    /\ SanitizerIdle /\ PreviewIdle /\ GridIdle

InitUpload ==
    UploadInit /\ ProvIdle /\ BatchIdle /\ ExportIdle /\ ThreadIdle
    /\ SanitizerIdle /\ PreviewIdle /\ GridIdle

InitThread ==
    ThreadInit /\ ProvIdle /\ BatchIdle /\ ExportIdle /\ UploadIdle
    /\ SanitizerIdle /\ PreviewIdle /\ GridIdle

InitSanitizer ==
    SanitizerInit /\ ProvIdle /\ BatchIdle /\ ExportIdle /\ UploadIdle
    /\ ThreadIdle /\ PreviewIdle /\ GridIdle

InitPreview ==
    PreviewInit /\ ProvIdle /\ BatchIdle /\ ExportIdle /\ UploadIdle
    /\ ThreadIdle /\ SanitizerIdle /\ GridIdle

InitGrid ==
    GridInit /\ ProvIdle /\ BatchIdle /\ ExportIdle /\ UploadIdle
    /\ ThreadIdle /\ SanitizerIdle /\ PreviewIdle

SpecProvider == InitProvider /\ [][ProvNext]_vars

SpecBatch == InitBatch /\ [][BatchNext]_vars

SpecExport == InitExport /\ [][ExportNext]_vars

SpecUpload == InitUpload /\ [][UploadNext]_vars

SpecThread == InitThread /\ [][ThreadNext]_vars

SpecSanitizer == InitSanitizer /\ [][SanitizerNext]_vars

SpecPreview == InitPreview /\ [][PreviewNext]_vars

SpecGrid == InitGrid /\ [][GridNext]_vars

(***************************************************************************)
(* Properties of the providers (checked under SpecProvider).               *)
(***************************************************************************)
ProvDone == p_pc = "done"

LastResp == p_resps[Len(p_resps)]

\* the transient-status allowlist of a provider (none for Bing and Google)
TransientOf(prov) ==
    IF prov = "duckduckgo" THEN DDG_RETRY_STATUS_CODES
    ELSE IF prov = "openverse" THEN OV_RETRY_STATUS_CODES
    ELSE {429, 500, 502, 503, 504}

IsErrorStatus(resp) == resp.kind = "http" /\ resp.status >= 400

\* a 200 response whose body has the expected shape throughout
WellFormed(resp) ==
    /\ resp.kind = "http" /\ resp.status = 200
    /\ resp.shape \in {"list", "html"}
    /\ \A i \in DOMAIN resp.items : resp.items[i].obj

\* the URL an item of the response carries for the provider ("" for none)
ItemUrl(prov, item) ==
    IF ~item.obj THEN ""
    ELSE IF prov = "bing" THEN item.main
    ELSE IF prov = "bing_service" THEN Unescape(item.main)
    ELSE IF prov = "google" THEN item.main
    ELSE IF item.main # "" THEN item.main ELSE item.thumb

RECURSIVE UrlsFrom(_, _, _)
UrlsFrom(prov, items, i) ==
    IF i > Len(items) THEN <<>>
    ELSE LET u == ItemUrl(prov, items[i])
         IN (IF u = "" THEN <<>> ELSE <<u>>) \o UrlsFrom(prov, items, i + 1)

\* the URLs of a response, in the order they occur in it
ResponseUrls(prov, resp) == UrlsFrom(prov, resp.items, 1)

\* C1 (as claimed): image_urls never raises, and a network error, an error
\* status, an unparsable body or a body that is no object yields an empty list.
C1_NeverRaises ==
    ProvDone =>
        /\ ~p_result.raised
        /\ (/\ p_resps # <<>>
            /\ \/ LastResp.kind = "exc"
               \/ IsErrorStatus(LastResp)
               \/ LastResp.shape \in {"not_json", "not_object", "not_list"})
           => p_result.urls = <<>>

\* C2 (as claimed): the URLs returned are pairwise distinct and in the order of
\* their first occurrence in the response.
C2_DistinctInOrder ==
    (ProvDone /\ ~p_result.raised /\ p_result.urls # <<>>) =>
        LET all == ResponseUrls(p_prov, LastResp)
            out == p_result.urls
        IN /\ IsDistinct(out)
           /\ \A i \in DOMAIN out : out[i] \in Range(all)
           /\ \A i, j \in DOMAIN out :
                i < j => FirstIndex(all, out[i]) < FirstIndex(all, out[j])

\* C3: a call with limit >= 1 that returns, returns at most `limit` URLs.
C3_AtMostLimit ==
    (p_result.set /\ ~p_result.raised) => Len(p_result.urls) <= p_limit

\* a response with more URLs than the limit was cut to exactly the limit
C3_Witness ==
    /\ ProvDone /\ p_resps # <<>>
    /\ WellFormed(LastResp)
    /\ Len(ResponseUrls(p_prov, LastResp)) > p_limit
    /\ Len(p_result.urls) = p_limit

SuccessUrls(prov, resp, limit) ==
    IF prov = "duckduckgo" THEN DdgExtract(resp.items, limit).urls
    ELSE OvExtract(resp.items, limit).urls

RetriedFirst(prov, resp, newreq) ==
    \/ resp.kind = "exc"
    \/ IsErrorStatus(resp)
    \/ resp.shape = "not_json" /\ (prov = "duckduckgo" \/ newreq)

BatchEnded == b_pc \in {"done", "crashed"}

\* the row loop is running or over
BatchRunning == b_pc \in {"rows", "done", "crashed"}

\* the latest iteration of the services loop was for (r, key)
LastIs(r, key) == b_last.row = r /\ b_last.svc = key

LastStep == IF b_last.steps = <<>> THEN "" ELSE b_last.steps[Len(b_last.steps)]

\* C6 (as claimed): no failure of a (row, provider) keeps the remaining
\* providers and rows from being processed: a run ends only after its last row.
C6_FailuresIsolated == BatchEnded => b_row > Len(b_df)

\* C7 (as claimed): a run that read its input and found the product column
\* ends with the table written back, holding every value recorded in df.
C7_TableWritten == BatchEnded => b_written = b_df

\* C8: with overwrite disabled, a non-blank provider cell is never queried,
\* fetched, saved or uploaded for, and keeps its value in df and in the
\* written workbook.
C8_SkipKeepsCell ==
    (~b_overwrite /\ BatchRunning) =>
        \A r \in DOMAIN b_df0 : \A k \in DOMAIN Services :
            StripCell(b_df0[r][Services[k]]) # "" =>
                /\ b_df[r][Services[k]] = b_df0[r][Services[k]]
                /\ b_pc = "done" => b_written[r][Services[k]] = b_df0[r][Services[k]]
                /\ LastIs(r, Services[k]) => b_last.skipped /\ b_last.steps = <<>>

\* a finished run that kept "old" in the Bing column of a row and filled the
\* blank Openverse column of the same row
C8_Witness ==
    /\ ~b_overwrite /\ b_pc = "done"
    /\ \E r \in DOMAIN b_df0 :
         /\ b_df0[r].product = "Widget"
         /\ b_df0[r].bing = "old" /\ b_written[r].bing = "old"
         /\ b_written[r].openverse = "hosted"
    /\ b_last.skipped

\* C9 (as claimed): with overwrite enabled, once a (row, provider) with a
\* non-blank existing value has been processed, the value has been replaced by
\* this run's result.
C9_Original ==
    (/\ b_overwrite /\ b_pc \in {"rows", "done"} /\ b_last.row # 0
     /\ StripCell(b_df0[b_last.row].product) # ""
     /\ StripCell(b_df0[b_last.row][b_last.svc]) # "")
    => /\ b_df[b_last.row][b_last.svc] = b_last.up
       /\ b_df[b_last.row][b_last.svc] # b_df0[b_last.row][b_last.svc]

\* C9 (amended): with overwrite enabled, a (row, provider) with a non-blank
\* existing value is queried; the cell holds the hosted URL of this run when
\* query, download, local save and upload all succeeded, and the existing value
\* when any of them failed.
C9_ReplacedOnSuccess ==
    (/\ b_overwrite /\ BatchRunning /\ b_last.row # 0
     /\ StripCell(b_df0[b_last.row][b_last.svc]) # "")
    => /\ ~b_last.skipped
       /\ b_last.steps # <<>> /\ b_last.steps[1] = "query"
       /\ IF LastStep = "record"
          THEN b_last.up # "" /\ b_df[b_last.row][b_last.svc] = b_last.up
          ELSE b_df[b_last.row][b_last.svc] = b_df0[b_last.row][b_last.svc]

\* "old" replaced by the hosted URL
C9_Witness ==
    /\ b_overwrite /\ b_last.row # 0
    /\ b_df0[b_last.row][b_last.svc] = "old"
    /\ LastStep = "record"
    /\ b_df[b_last.row][b_last.svc] = "hosted"

(***************************************************************************)
(* Properties of the interactive export                                    *)
(***************************************************************************)
ExportRunning == e_pc \in {"rows", "done"}

\* C10: the interactive export has no overwrite flag, so no provider slot
\* (prefix_1..prefix_N) that held a non-blank value when the export started
\* may hold another value afterwards, whatever the selection of its row and
\* provider is (an empty list included).
C10_ExistingSlotsKept ==
    ExportRunning =>
        \A r \in DOMAIN e_df0 : \A svc \in ServiceSet : \A j \in 1..e_N :
            e_df0[r][svc][j] # "" => e_df[r][svc][j] = e_df0[r][svc][j]

(***************************************************************************)
(* Properties of the upload calls                                          *)
(***************************************************************************)
UploadDone == u_pc = "done"

TransientUploadStatus(resp) ==
    resp.kind = "http" /\ resp.status \in {429, 500, 502, 503, 504}

\* C11: an upload call makes at most 3 POST attempts; an attempt after the
\* first is made only when the attempt before it ended in a transport
\* exception or in a response with status 429, 500, 502, 503 or 504, and a
\* response with any other status is the last attempt of the call.
C11_AtMostThreeAttempts ==
    /\ Len(u_log) <= 3
    /\ \A i \in 2..Len(u_log) :
          u_log[i - 1].kind = "exc" \/ TransientUploadStatus(u_log[i - 1])
    /\ \A i \in 1..Len(u_log) :
          (u_log[i].kind = "http" /\ ~TransientUploadStatus(u_log[i]))
             => (i = Len(u_log) /\ u_pc # "loop")

C11_Witness ==
    /\ UploadDone
    /\ Len(u_log) = 3
    /\ u_log[1].kind = "exc"
    /\ TransientUploadStatus(u_log[2])
    /\ u_log[3].kind = "http"

\* C12: ImgbbUploader.upload and CatboxUploader.upload never raise: whatever
\* the attempts gave and whatever the body of the response is, the call
\* returns (a URL or None).
C12_UploadNeverRaises ==
    u_call \in {"imgbb", "catbox"} => u_result.kind # "raised"

\* the response is HTTP-OK and has the success shape of the backend
UpSuccessShape(call, resp) ==
    /\ resp.kind = "http"
    /\ resp.status = 200
    /\ IF call = "imgbb" THEN resp.body = "success"
       ELSE resp.body \in {"http://h/1", " http://h/1\n"}

\* C13: a finished upload call has returned a URL exactly when its final
\* attempt gave an HTTP-OK response in the success shape of the backend, and
\* the URL returned is the one that response carries; a response kept from
\* an earlier attempt does not make the call succeed.
C13_UrlFromFinalAttempt ==
    UploadDone =>
        LET final == u_log[Len(u_log)]
        IN /\ (u_result.kind = "url") <=> UpSuccessShape(u_call, final)
           /\ u_result.kind = "url" => u_result.url = "http://h/1"

C13_Witness ==
    /\ UploadDone
    /\ Len(u_log) = 3
    /\ TransientUploadStatus(u_log[1])
    /\ u_log[1].body \in {"success", " http://h/1\n"}
    /\ UpSuccessShape(u_call, u_log[3])
    /\ u_result.kind = "url"

(***************************************************************************)
(* Frame properties of the batch orchestrator                              *)
(***************************************************************************)
\* C14: with skip-if-blank enabled, a row whose product name is missing or
\* blank after trimming is never taken into the services loop (so no provider
\* is queried and nothing is downloaded, saved or uploaded for it) and every
\* cell of the row keeps the value it had when the row loop started.
C14_BlankRowUntouched ==
    (b_skipBlank /\ BatchRunning) =>
        \A r \in DOMAIN b_df :
            (b_input.rows[r].product = NaN \/ b_input.rows[r].product = " ") =>
                /\ b_last.row # r
                /\ ~(b_row = r /\ b_k > 0)
                /\ b_df[r] = b_df0[r]

C14_Witness ==
    /\ b_skipBlank
    /\ b_pc = "done"
    /\ Len(b_df) = 2
    /\ b_input.rows[1].product = " "
    /\ b_input.rows[2].product = "Widget"
    /\ b_last.row = 2
    /\ b_written[1] = b_df0[1]

\* C15: no step of a batch run changes a cell of the "Image URL" column (nor
\* of the product column): the cells of the table, and of the table written
\* back, differ from the workbook read only in the three provider columns.
C15_ImageColumnKept ==
    /\ BatchRunning =>
          \A r \in DOMAIN b_df :
              /\ b_df[r].image = b_input.rows[r].image
              /\ b_df[r].product = b_input.rows[r].product
    /\ b_pc = "done" =>
          \A r \in DOMAIN b_written :
              /\ b_written[r].image = b_input.rows[r].image
              /\ b_written[r].product = b_input.rows[r].product

C15_Witness ==
    /\ b_pc = "done"
    /\ Len(b_written) >= 1
    /\ b_written[1].bing = "hosted"
    /\ b_written[1].bing # b_df0[1].bing
    /\ b_written[1].image = "img"

\* C16: in the interactive export, the slot of an image whose upload did not
\* finish within the hard timeout holds the source URL of the image, and the
\* slot of an image whose upload finished in time with a hosted URL holds that
\* hosted URL.  (Every chosen image has bytes, so image i of the list is
\* recorded in slot i.)
C16_TimeoutRecordsSource ==
    e_last.row # 0 =>
        \A i \in 1..Len(e_last.chosen) :
            LET slot == e_df[e_last.row][e_last.svc][i]
            IN /\ e_last.ups[i].status = "timeout" => slot = e_last.chosen[i]
               /\ (e_last.ups[i].status = "ok" /\ e_last.ups[i].url # "")
                     => slot = e_last.ups[i].url

C16_Witness ==
    /\ e_last.row # 0
    /\ Len(e_last.chosen) = 2
    /\ e_last.ups[1].status = "timeout"
    /\ e_last.ups[2].status = "ok"
    /\ e_last.ups[2].url = "hosted"
    /\ e_df[e_last.row][e_last.svc] = <<e_last.chosen[1], "hosted">>

(***************************************************************************)
(* Properties of upload_host_safe                                          *)
(***************************************************************************)
\* C17: under every interleaving of the worker threads with the joins, each
\* upload_host_safe call returns one of (url, 'ok'), (None, 'timeout'),
\* (None, 'error'), with a URL only under 'ok'; the link recorded for a call
\* that returned 'timeout' is the source URL and stays so when the detached
\* worker completes, and the slots written are the recorded links.
C17_OneOutcomePerCall ==
    /\ Len(t_rets) = Len(t_links)
    /\ \A i \in 1..Len(t_rets) :
          /\ t_rets[i].status \in {"ok", "timeout", "error"}
          /\ t_rets[i].url # "None" => t_rets[i].status = "ok"
          /\ t_rets[i].status = "timeout" => t_links[i] = SvcUrls("bing")[i]
          /\ t_rets[i].status = "error" => t_links[i] = SvcUrls("bing")[i]
          /\ (t_rets[i].status = "ok" /\ t_rets[i].url # "None")
                => t_links[i] = t_rets[i].url
    /\ t_pc = "done" =>
          /\ Len(t_slots) = t_n
          /\ \A i \in 1..t_n : t_slots[i] = t_links[i]

\* a call timed out, its worker completed with a hosted URL afterwards, and
\* the slot still holds the source URL
C17_Witness ==
    /\ t_pc = "done"
    /\ t_n = 2
    /\ t_rets[1].status = "timeout"
    /\ t_worker[1] = "ended"
    /\ t_result[1].url = "hosted"
    /\ t_slots[1] = "b1"
    /\ t_rets[2].status = "ok"

(***************************************************************************)
(* Properties of the normalizer                                            *)
(***************************************************************************)
\* the normalizer has run in the call (upload_url has none)
Normalized == u_call \in {"imgbb", "catbox"} /\ u_pc # "start"

Ceiling == IF u_call = "imgbb" THEN 15728640 ELSE 204472320

DeclaredWebp == u_ct \in {"image/webp", "IMAGE/WEBP"}

\* C18: the bytes the normalizer returns are the input bytes whenever the
\* input is at or below the ceiling of the backend and the declared content
\* type is not WEBP, and whenever conversion was triggered but the codec is
\* unavailable or decoding failed; they differ from the input only when
\* conversion was triggered and the re-encode succeeded.
C18_BytesPassThrough ==
    Normalized =>
        /\ (u_raw.len <= Ceiling /\ ~DeclaredWebp) => u_sent.bytes = u_raw
        /\ u_conv \in {"no codec", "failed"} => u_sent.bytes = u_raw
        /\ u_sent.bytes # u_raw =>
              /\ u_raw.len > Ceiling \/ DeclaredWebp
              /\ u_conv = "done"

C18_Witness ==
    /\ Normalized
    /\ u_raw.len > Ceiling
    /\ u_conv = "failed"
    /\ u_sent.bytes = u_raw
    /\ u_pc = "done"

\* C19: when the normalizer is not triggered, the extension and mimetype it
\* returns, which the upload sends as file name suffix and part type, are the
\* ones guessed from the URL and the declared content type (.png/image/png
\* for PNG, .gif/image/gif for GIF, .jpg/image/jpeg for JPEG and by default).
C19_GuessedTypeSent ==
    (Normalized /\ u_raw.len <= Ceiling /\ ~DeclaredWebp) =>
        <<u_sent.ext, u_sent.mimetype>> = guess_ext_and_type(u_url, u_ct)

(***************************************************************************)
(* Properties of the name sanitizers                                       *)
(***************************************************************************)
RECURSIVE Collapsed(_)
\* s with each maximal run of characters outside [A-Za-z0-9._-] replaced by
\* one "_", built from the right end
Collapsed(s) ==
    IF s = <<>> THEN <<>>
    ELSE LET n == Len(s)
             front == SubSeq(s, 1, n - 1)
         IN IF s[n] \in {"a", "Z", "7", ".", "_", "-"} THEN Append(Collapsed(front), s[n])
            ELSE IF n > 1 /\ s[n - 1] \notin {"a", "Z", "7", ".", "_", "-"}
            THEN Collapsed(front)
            ELSE Append(Collapsed(front), "_")

\* t without its leading and trailing "_"
Trimmed(t) ==
    LET kept == {i \in DOMAIN t : t[i] # "_"}
    IN IF kept = {} THEN <<>>
       ELSE SubSeq(t, CHOOSE i \in kept : \A j \in kept : i <= j,
                      CHOOSE i \in kept : \A j \in kept : i >= j)

\* C20: for every input string a sanitizer returns a non-empty string; it is
\* the input with each maximal run of characters outside [A-Za-z0-9._-]
\* replaced by one "_" and the leading and trailing "_" removed, made only of
\* characters of the class, or the default name ("image", "file" for Catbox)
\* when that leaves nothing.
C20_SanitizedName ==
    n_pc = "done" =>
        LET t == Trimmed(Collapsed(n_in))
        IN /\ n_out # <<>>
           /\ IF t = <<>>
              THEN n_out = (IF n_fn = "catbox" THEN <<"f", "i", "l", "e">>
                            ELSE <<"i", "m", "a", "g", "e">>)
              ELSE /\ n_out = t
                   /\ \A i \in DOMAIN n_out : n_out[i] \in {"a", "Z", "7", ".", "_", "-"}
                   /\ n_out[1] # "_" /\ n_out[Len(n_out)] # "_"

C20_Witness ==
    /\ n_pc = "done"
    /\ n_in = <<"/", "a", " ", "Z">>
    /\ n_out = <<"a", "_", "Z">>

(***************************************************************************)
(* The DuckDuckGo token                                                    *)
(***************************************************************************)
\* the token page request failed or no pattern matches the page
NoToken(page) ==
    \/ page.kind = "exc"
    \/ page.status >= 400
    \/ \A i \in 1..7 : page.match[i] = ""

\* C21: DuckDuckGo sends an image-results request only when a vqd token has
\* been extracted from the search page; the token is the match of the first
\* pattern, in list order, that matches the page; when the token page request
\* fails or no pattern matches, image_urls returns an empty list and no
\* image-results request is sent.
C21_TokenBeforeResults ==
    [][p_prov = "duckduckgo" =>
         /\ p_resps' # p_resps => (p_vqd # "" /\ p_vqd' = p_vqd)
         /\ (p_pc = "vqd" /\ ~NoToken(p_page)) =>
               \E i \in 1..7 :
                  /\ p_page.match[i] # ""
                  /\ \A j \in 1..(i - 1) : p_page.match[j] = ""
                  /\ p_vqd' = p_page.match[i]
         /\ (p_pc = "vqd" /\ NoToken(p_page)) =>
               /\ p_pc' = "done"
               /\ p_result' = [raised |-> FALSE, urls |-> <<>>, set |-> TRUE]
               /\ p_resps' = <<>>]_vars

\* a finished call in which a token was extracted and an image-results
\* request was sent
C21_Witness ==
    /\ p_prov = "duckduckgo"
    /\ p_vqd = "v2"
    /\ Len(p_resps) >= 1
    /\ p_pc = "done"

(***************************************************************************)
(* Bing: how many URLs come back                                           *)
(***************************************************************************)
RECURSIVE DistinctInOrder(_)
\* the first occurrences of s, in order
DistinctInOrder(s) ==
    IF s = <<>> THEN <<>>
    ELSE LET front == DistinctInOrder(SubSeq(s, 1, Len(s) - 1))
         IN IF \E i \in DOMAIN front : front[i] = s[Len(s)] THEN front
            ELSE Append(front, s[Len(s)])

\* the image URLs of a Bing page as the provider reads them (bing_service.py
\* decodes the HTML entities)
PageUrls(prov, resp) ==
    [i \in DOMAIN resp.items |->
        IF prov = "bing_service" /\ resp.items[i].main = "x2?a&amp;b" THEN "x2?a&b"
        ELSE resp.items[i].main]

\* C28: when the Bing page holds at least `limit` distinct image URLs,
\* image_urls returns exactly the first `limit` distinct URLs of the page, in
\* order; duplicates among the early matches do not make the result shorter
\* than min(limit, number of distinct URLs of the page).
C28_LimitDistinctUrls ==
    (ProvDone /\ p_prov \in {"bing", "bing_service"}
       /\ LastResp.kind = "http" /\ LastResp.status = 200) =>
        LET distinct == DistinctInOrder(PageUrls(p_prov, LastResp))
        IN /\ Len(distinct) >= p_limit =>
                p_result.urls = SubSeq(distinct, 1, p_limit)
           /\ Len(p_result.urls) >= Min(p_limit, Len(distinct))

(***************************************************************************)
(* The order of the steps of the batch orchestrator                        *)
(***************************************************************************)
HasStep(st) == \E i \in DOMAIN b_last.steps : b_last.steps[i] = st

\* C23: for each (row, provider) of a batch run the steps happen only in the
\* order query, fetch, (local save,) upload, record: the image is fetched only
\* after the provider returned a URL, the upload is called only after the
\* fetch gave non-empty bytes, and the cell is written only after the upload
\* of this (row, provider) returned a URL, with exactly that URL; when a step
\* fails the cell keeps the value it had before the row was processed.
C23_StepsInOrder ==
    b_last.row # 0 =>
        LET cell == b_df[b_last.row][b_last.svc]
            before == b_df0[b_last.row][b_last.svc]
        IN /\ b_last.steps =
                 SubSeq(<<"query", "fetch", "save", "upload", "record">>, 1,
                        Len(b_last.steps))
           /\ HasStep("fetch") => b_last.url # ""
           /\ HasStep("upload") => b_last.bytes = "ok"
           /\ HasStep("record") => (b_last.up # "" /\ cell = b_last.up)
           /\ ~HasStep("record") => cell = before

C23_Witness ==
    /\ b_last.row # 0
    /\ HasStep("record")
    /\ b_df0[b_last.row][b_last.svc] = "old"
    /\ b_df[b_last.row][b_last.svc] = "hosted"

(***************************************************************************)
(* The slot columns and the recorded links of the interactive export       *)
(***************************************************************************)
\* svc is a key of selections[idx] of row r
HasEntry(r, svc) == \E k \in DOMAIN e_sel[r] : e_sel[r][k].svc = svc

\* C24: after the export has processed a (row, provider) that has a selection
\* entry, with k recorded links, slots 1..k of the provider hold the links in
\* their order and slots k+1..N are blank; the slots of a provider without a
\* selection entry for a row are what they were when the row loop started.
C24_SlotLayout ==
    /\ e_last.row # 0 =>
          LET slots == e_df[e_last.row][e_last.svc]
              k == Len(e_last.links)
          IN /\ k <= e_N
             /\ HasEntry(e_last.row, e_last.svc)
             /\ \A j \in 1..e_N :
                   slots[j] = IF j <= k THEN e_last.links[j] ELSE ""
    /\ e_pc \in {"rows", "done"} =>
          \A r \in DOMAIN e_df : \A svc \in ServiceSet :
             ~HasEntry(r, svc) => e_df[r][svc] = e_df0[r][svc]

C24_Witness ==
    /\ e_last.row # 0
    /\ Len(e_last.links) = 1
    /\ e_N = 2
    /\ e_df[e_last.row][e_last.svc] = <<e_last.links[1], "">>
    /\ \E svc \in ServiceSet :
          ~HasEntry(e_last.row, svc) /\ e_df[e_last.row][svc] = <<"old", "old">>

\* C26: an image served as WEBP whose bytes the export has is sent re-encoded
\* to JPEG, whether the bytes come from the preview cache or a re-download.
C26_WebpReencoded ==
    e_last.row # 0 =>
        \A i \in DOMAIN e_last.chosen :
            (e_last.dls[i] # "fail" /\ HasWebp(ServedType(e_last.chosen[i])))
               => e_last.sent[i].id = "jpeg"

\* the positions of the chosen URLs whose bytes the export has, in order
WithBytes == SelectSeq([i \in DOMAIN e_last.chosen |-> i], LAMBDA i : e_last.dls[i] # "fail")

\* C27: each of the first N selected URLs of a (row, provider) whose bytes are
\* available contributes exactly one recorded link, in selection order: the
\* hosted URL when upload_host_safe returned one with status ok, the source
\* URL otherwise; a URL without bytes contributes none.
C27_OneLinkPerUrl ==
    e_last.row # 0 =>
        /\ Len(e_last.chosen) <= e_N
        /\ Len(e_last.links) = Len(WithBytes)
        /\ \A n \in DOMAIN WithBytes :
              LET i == WithBytes[n]
                  up == e_last.ups[i]
              IN e_last.links[n] =
                    IF up.status = "ok" /\ up.url # "" THEN up.url ELSE e_last.chosen[i]

C27_Witness ==
    /\ e_last.row # 0
    /\ Len(e_last.chosen) = 2
    /\ e_last.ups[1].status = "error"
    /\ e_last.ups[2] = [status |-> "ok", url |-> "hosted"]
    /\ e_last.links = <<e_last.chosen[1], "hosted">>

(***************************************************************************)
(* Properties of the preview download (checked under SpecPreview)          *)
(***************************************************************************)
\* C22: download_for_preview returns bytes only when the download succeeded
\* with non-empty bytes, the declared content type contains "image", and the
\* bytes verify as a well-formed image; in every other case, a response with
\* no declared image type included, it returns no bytes.
C22_PreviewOnlyDeclaredImages ==
    v_pc = "done" =>
        (v_out # None <=>
            /\ v_resp.kind = "http" /\ v_resp.status < 400
            /\ v_resp.content # ""
            /\ v_resp.ct # None /\ HasImage(v_resp.ct)
            /\ Verifies(v_resp.content)
            /\ v_out = v_resp.content)

(***************************************************************************)
(* Properties of the grid (checked under SpecGrid)                         *)
(***************************************************************************)
\* C25: after every render pass, a URL is in the row's selection list of a
\* provider if and only if at least one checkbox of a fetched item with that
\* provider and URL is checked, and no URL is listed twice.
C25_SelectionMatchesCheckboxes ==
    g_run \notin {"none", "idle"} =>
        \A svc \in ServiceSet :
            /\ IsDistinct(g_sel[svc])
            /\ \A u \in GridUrls :
                  InList(u, g_sel[svc]) <=>
                     \E j \in DOMAIN g_items :
                        g_items[j] = [svc |-> svc, url |-> u] /\ g_ck[j]

====
